---- MODULE Spec2Model ----
(***************************************************************************)
(* Netro Watering (Home Assistant custom integration): the update          *)
(* coordinators, the slowdown-factor table and the entry-level service     *)
(* bookkeeping, as state machines.                                         *)
(*                                                                         *)
(* Conventions                                                             *)
(*  - a Python attribute that is None / not yet set is the empty tuple     *)
(*    <<>>, a set value x is <<x>> (NoneV / Some);                         *)
(*  - a dict key that is absent from a remote response is a field absent   *)
(*    from the record (reading it raises KeyError);                        *)
(*  - a timestamp text "....THH:MM:SS" is the tuple of its varying digits  *)
(*    (fixed width, most significant first); malformed text is <<>>;       *)
(*  - decimal hours (floats) are kept exactly, as seconds.                 *)
(***************************************************************************)
EXTENDS Integers, Sequences, FiniteSets, TLC

VARIABLES
    \* ---- NetroControllerUpdateCoordinator ----
    c_zone_num,                 \* self.zone_num
    c_status,                   \* self.status
    c_metadata,                 \* self._metadata
    c_battery_level,            \* self.battery_level (attribute may not exist)
    c_active_zones,             \* self._active_zones : ith -> Zone
    c_schedules,                \* self._schedules
    c_moistures,                \* self._moistures
    c_current_slowdown_factor,  \* self.current_slowdown_factor
    c_update_interval,          \* self.update_interval, minutes
    c_pc,                       \* where _async_update_data is suspended
    c_outcome,                  \* how the last finished poll ended
    c_info_zones,               \* zone list of the get-info response of the current/last poll
    c_info_battery,             \* battery_level of that response (NoneV: the key is absent)
    c_sched_resp,               \* schedule list of the get-schedules response of the last poll
    c_now,                      \* clock text used by the last schedule reconciliation
    c_keys_before,              \* keys of _active_zones when the current/last poll started
    c_calls,                    \* the remote calls of the current/last poll: issued, returned, raised
    c_poll_time,                \* datetime.now() read when the current/last poll started
    c_views,                    \* _active_zones as readable at each await of the current/last poll
    c_zone_entities,            \* zone keys the platforms created zone entities for (NoneV: not set up)
    \* ---- NetroSensorUpdateCoordinator ----
    s_metadata, s_id, s_time, s_local_date, s_local_time,
    s_moisture, s_sunlight, s_celsius, s_fahrenheit, s_battery_level,
    s_pc, s_outcome, s_resp_len,
    \* ---- hass: config entries, hass.data[DOMAIN], services ----
    h_loaded,                   \* entries hass.config_entries reports as loaded
    h_data,                     \* entry ids that are keys of hass.data[DOMAIN]
    h_services,                 \* registered services of the domain
    h_unload_result,            \* return value of the last async_unload_entry
    \* ---- slowdown-factor table as a pure-function harness ----
    f_raw,                      \* the configured (string) table
    f_table,                    \* the table after prepare_slowdown_factors
    f_time,                     \* time of day handed to get_slowdown_factor
    f_factor,                   \* what get_slowdown_factor returned
    f_pc,
    \* ---- one call of an action method, a switch or a service ----
    a_handler,                  \* the method that is running, or ran last
    a_args,                     \* the arguments it was called with
    a_pc,                       \* where that call is suspended
    a_trace,                    \* what the call has done so far, in order
    a_result                    \* how the call ended

ctrlVars == <<c_zone_num, c_status, c_metadata, c_battery_level, c_active_zones,
              c_schedules, c_moistures, c_current_slowdown_factor, c_update_interval,
              c_pc, c_outcome, c_info_zones, c_info_battery, c_sched_resp, c_now,
              c_keys_before, c_calls, c_poll_time, c_views,
              c_zone_entities>>
sensVars == <<s_metadata, s_id, s_time, s_local_date, s_local_time,
              s_moisture, s_sunlight, s_celsius, s_fahrenheit, s_battery_level,
              s_pc, s_outcome, s_resp_len>>
hassVars == <<h_loaded, h_data, h_services, h_unload_result>>
sdfVars  == <<f_raw, f_table, f_time, f_factor, f_pc>>
actVars  == <<a_handler, a_args, a_pc, a_trace, a_result>>
vars     == <<ctrlVars, sensVars, hassVars, sdfVars, actVars>>

NoneV   == <<>>
Some(x) == <<x>>

(***************************************************************************)
(* Bounds of the model.                                                    *)
(***************************************************************************)
MaxZone  == 2   \* zone indices 1..MaxZone
MaxSched == 2   \* schedules in one get-schedules response
MaxMeas  == 1   \* measurements in one get-sensor-data response
MaxWin   == 2   \* windows in a slowdown table

Zones == 1..MaxZone

(***************************************************************************)
(* Slowdown-factor table (coordinator.py, prepare_slowdown_factors and     *)
(* get_slowdown_factor).  A time text "HH:MM[:SS]" is the tuple of its     *)
(* ":"-separated fields; a decimal-hour float is held as seconds, which is *)
(* exact: both functions build it from h, m, s by the same expression.     *)
(***************************************************************************)
SecondsPerHour   == 3600
SecondsPerMinute == 60
DayHours         == 24

\* hhmm_to_decimal: missing fields count as 0
hhmm_to_decimal(hhmm) ==
    LET hours   == IF Len(hhmm) > 0 THEN hhmm[1] ELSE 0
        minutes == IF Len(hhmm) > 1 THEN hhmm[2] ELSE 0
        seconds == IF Len(hhmm) > 2 THEN hhmm[3] ELSE 0
    IN  hours * SecondsPerHour + minutes * SecondsPerMinute + seconds

\* the body of "for slot in slowdown_factor"
MutPrepareSlotNoShift(slot) ==
    [from |-> hhmm_to_decimal(slot.from), to |-> hhmm_to_decimal(slot.to), sdf |-> slot.sdf]

PrepareSlot(slot) ==
    LET frm == hhmm_to_decimal(slot.from)
        to  == hhmm_to_decimal(slot.to)
    IN  [from |-> IF frm > to THEN frm - DayHours * SecondsPerHour ELSE frm,
         to   |-> to,
         sdf  |-> slot.sdf]

\* None stays None; a list is converted slot by slot, in place and in order
prepare_slowdown_factors(slowdown_factor) ==
    IF slowdown_factor # NoneV
    THEN Some([i \in DOMAIN slowdown_factor[1] |-> PrepareSlot(slowdown_factor[1][i])])
    ELSE slowdown_factor

\* the condition of the "if" inside the loop of get_slowdown_factor
MutSlotMatchesStrict(slot, positive_this_time, negative_this_time) ==
    \/ (positive_this_time > slot.from /\ positive_this_time < slot.to)
    \/ (negative_this_time > slot.from /\ negative_this_time < slot.to)

MutSlotMatchesPositiveOnly(slot, positive_this_time, negative_this_time) ==
    positive_this_time >= slot.from /\ positive_this_time <= slot.to

SlotMatches(slot, positive_this_time, negative_this_time) ==
    \/ (positive_this_time >= slot.from /\ positive_this_time <= slot.to)
    \/ (negative_this_time >= slot.from /\ negative_this_time <= slot.to)

\* the loop with its break: the first matching slot decides
RECURSIVE SelectFactor(_, _, _, _)
SelectFactor(slots, i, pos, neg) ==
    IF i > Len(slots) THEN 1
    ELSE IF SlotMatches(slots[i], pos, neg) THEN slots[i].sdf
    ELSE SelectFactor(slots, i + 1, pos, neg)

get_slowdown_factor(slowdown_factors, this_time) ==
    IF slowdown_factors # NoneV /\ Len(slowdown_factors[1]) > 0
    THEN LET positive_this_time ==
                 this_time.hour * SecondsPerHour
                 + this_time.minute * SecondsPerMinute + this_time.second
             negative_this_time == positive_this_time - DayHours * SecondsPerHour
         IN  SelectFactor(slowdown_factors[1], 1, positive_this_time, negative_this_time)
    ELSE 1

(***************************************************************************)
(* Validation of the configured table (__init__.py, CONFIG_SCHEMA and      *)
(* _validate_slowdown_factors), applied to configuration.yaml before       *)
(* async_setup runs.                                                       *)
(***************************************************************************)
\* _parse_hms_to_time: "%H:%M", then "%H:%M:%S"; NoneV where both raise
parse_hms_to_time(s) ==
    LET InRange == /\ s[1] \in 0..23
                   /\ s[2] \in 0..59
                   /\ Len(s) = 3 => s[3] \in 0..59
    IN  IF Len(s) \in {2, 3} /\ InRange
        THEN Some([hour |-> s[1], minute |-> s[2], second |-> IF Len(s) = 3 THEN s[3] ELSE 0])
        ELSE NoneV

\* the body of "for idx, item in enumerate(value)": TRUE where it raises vol.Invalid
MutItemInvalidComparesText(item) ==
    \/ parse_hms_to_time(item.from) = NoneV
    \/ parse_hms_to_time(item.to) = NoneV
    \/ item.sdf < 1
    \/ item.from = item.to

slowdown_item_invalid(item) ==
    LET frm_t == parse_hms_to_time(item.from)
        to_t  == parse_hms_to_time(item.to)
    IN  \/ frm_t = NoneV
        \/ to_t = NoneV
        \/ item.sdf < 1
        \/ frm_t = to_t

\* _validate_slowdown_factors: None becomes the empty list; a list is returned
\* unchanged unless one of its items raises
MutValidateFirstItemOnly(value) ==
    IF value = NoneV THEN [raised |-> FALSE, value |-> Some(<<>>)]
    ELSE IF Len(value[1]) > 0 /\ slowdown_item_invalid(value[1][1])
         THEN [raised |-> TRUE, value |-> NoneV]
         ELSE [raised |-> FALSE, value |-> value]

validate_slowdown_factors(value) ==
    IF value = NoneV THEN [raised |-> FALSE, value |-> Some(<<>>)]
    ELSE IF \E i \in DOMAIN value[1] : slowdown_item_invalid(value[1][i])
         THEN [raised |-> TRUE, value |-> NoneV]
         ELSE [raised |-> FALSE, value |-> value]

\* ---- inputs of the harness ----
RawTimes == {<<6, 0>>, <<12, 0, 0>>, <<22, 30>>}
RawSdfs  == {2, 3}
RawSlots == [from : RawTimes, to : RawTimes, sdf : RawSdfs]
RawTables == {NoneV} \cup
             {Some(t) : t \in UNION {[1..n -> RawSlots] : n \in 0..MaxWin}}
TimesOfDay == {[hour |-> 6,  minute |-> 0,  second |-> 0],
               [hour |-> 12, minute |-> 0,  second |-> 0],
               [hour |-> 12, minute |-> 0,  second |-> 1],
               [hour |-> 22, minute |-> 29, second |-> 59],
               [hour |-> 23, minute |-> 0,  second |-> 0],
               [hour |-> 3,  minute |-> 15, second |-> 0]}

\* the harness at rest, for the specifications that do not use it
ParkedSdf ==
    /\ f_raw = NoneV /\ f_table = NoneV /\ f_time = NoneV /\ f_factor = NoneV
    /\ f_pc = "parked"

InitSdf ==
    /\ f_raw \in RawTables
    /\ f_table = f_raw
    /\ f_time = NoneV
    /\ f_factor = NoneV
    /\ f_pc = "configured"

\* what configuration.yaml may hold under slowdown_factors: NoneV is a missing
\* or empty key; one time is out of range, two are the same time in two spellings
ConfigTimes == {<<6, 0>>, <<12, 0>>, <<12, 0, 0>>, <<25, 0>>}
ConfigSdfs  == {0, 1, 2}
ConfigSlots == [from : ConfigTimes, to : ConfigTimes, sdf : ConfigSdfs]
ConfigTables == {NoneV} \cup
                {Some(t) : t \in UNION {[1..n -> ConfigSlots] : n \in 0..MaxWin}}

InitConfig ==
    /\ f_raw \in ConfigTables
    /\ f_table = NoneV
    /\ f_time = NoneV
    /\ f_factor = NoneV
    /\ f_pc = "yaml"

\* the configuration is validated: a table that raises vol.Invalid stops the
\* set-up of the integration, an accepted one is what async_setup receives
Validate ==
    /\ f_pc = "yaml"
    /\ LET checked == validate_slowdown_factors(f_raw)
       IN  IF checked.raised
           THEN f_pc' = "rejected" /\ UNCHANGED f_table
           ELSE f_pc' = "configured" /\ f_table' = checked.value
    /\ UNCHANGED <<f_raw, f_time, f_factor>>
    /\ UNCHANGED <<ctrlVars, sensVars, hassVars, actVars>>

\* async_setup prepares the configured table once
Prepare ==
    /\ f_pc = "configured"
    /\ f_table' = prepare_slowdown_factors(f_table)
    /\ f_pc' = "prepared"
    /\ UNCHANGED <<f_raw, f_time, f_factor>>
    /\ UNCHANGED <<ctrlVars, sensVars, hassVars, actVars>>

\* a poll evaluates the prepared table at the wall-clock time
Evaluate(this_time) ==
    /\ f_pc \in {"prepared", "evaluated"}
    /\ f_factor' = Some(get_slowdown_factor(f_table, this_time))
    /\ f_time' = Some(this_time)
    /\ f_pc' = "evaluated"
    /\ UNCHANGED <<f_raw, f_table>>
    /\ UNCHANGED <<ctrlVars, sensVars, hassVars, actVars>>


(***************************************************************************)
(* Meta: the response envelope's "meta" block (coordinator.py, class Meta) *)
(***************************************************************************)
MetaKeys == {"last_active", "time", "tid", "version",
             "token_limit", "token_remaining", "token_reset"}

\* datetime.fromisoformat raises ValueError on malformed text
IsoParses(text) == Len(text) = 2
fromisoformat(text) == text[1] * 10 + text[2]

\* building Meta(...) from meta_data raises: a key is missing (KeyError, when the
\* arguments are evaluated) or one of the three timestamps does not parse
MetaRaises(meta_data) ==
    \/ \E k \in MetaKeys : k \notin DOMAIN meta_data
    \/ ~IsoParses(meta_data.last_active)
    \/ ~IsoParses(meta_data.time)
    \/ ~IsoParses(meta_data.token_reset)

Meta(meta_data) ==
    [version          |-> meta_data.version,
     token_limit      |-> meta_data.token_limit,
     token_remaining  |-> meta_data.token_remaining,
     tid              |-> meta_data.tid,
     last_active_date |-> fromisoformat(meta_data.last_active),
     time             |-> fromisoformat(meta_data.time),
     token_reset_date |-> fromisoformat(meta_data.token_reset)]

\* ---- meta blocks the remote may send ----
GoodMeta(k) ==
    [last_active |-> <<0, k>>, time |-> <<1, k>>, tid |-> k, version |-> "1.0",
     token_limit |-> 2000, token_remaining |-> 2000 - k, token_reset |-> <<2, 0>>]
BadTimeMeta == [GoodMeta(1) EXCEPT !.time = <<>>]
MetaBlocks == {GoodMeta(1), GoodMeta(2), BadTimeMeta}

(***************************************************************************)
(* NetroSensorUpdateCoordinator (coordinator.py)                           *)
(***************************************************************************)
\* the assignments of _async_update_data, in the order the code makes them
MeasFields == <<"id", "time", "local_date", "local_time", "moisture",
                "sunlight", "celsius", "fahrenheit", "battery_level">>
ParsedFields == {"time", "local_date", "local_time"}

\* evaluating the right-hand side of the assignment of field f raises
FieldRaises(sensor_data, f) ==
    \/ f \notin DOMAIN sensor_data
    \/ (f \in ParsedFields /\ ~IsoParses(sensor_data[f]))

\* index of the first assignment that raises, Len(MeasFields) + 1 if none does
FirstRaise(sensor_data) ==
    LET bad == {i \in DOMAIN MeasFields : FieldRaises(sensor_data, MeasFields[i])}
    IN  IF bad = {} THEN Len(MeasFields) + 1
        ELSE CHOOSE i \in bad : \A j \in bad : i <= j

FieldValue(sensor_data, f) ==
    IF f \in ParsedFields THEN fromisoformat(sensor_data[f]) ELSE sensor_data[f]

SensorFields ==
    [id |-> s_id, time |-> s_time, local_date |-> s_local_date,
     local_time |-> s_local_time, moisture |-> s_moisture, sunlight |-> s_sunlight,
     celsius |-> s_celsius, fahrenheit |-> s_fahrenheit,
     battery_level |-> s_battery_level]

\* "if len(res["data"]["sensor_data"]) > 0": only the first report is taken, and
\* each field is assigned until an assignment raises
MutMeasurementUpdateClears(cur, sensor_data_list) ==
    IF Len(sensor_data_list) > 0
    THEN LET sd == sensor_data_list[1]
             n  == FirstRaise(sd)
         IN  [f \in DOMAIN cur |->
                 IF \E i \in 1..(n - 1) : MeasFields[i] = f
                 THEN Some(FieldValue(sd, f)) ELSE cur[f]]
    ELSE [f \in DOMAIN cur |-> NoneV]

MeasurementUpdate(cur, sensor_data_list) ==
    IF Len(sensor_data_list) > 0
    THEN LET sd == sensor_data_list[1]
             n  == FirstRaise(sd)
         IN  [f \in DOMAIN cur |->
                 IF \E i \in 1..(n - 1) : MeasFields[i] = f
                 THEN Some(FieldValue(sd, f)) ELSE cur[f]]
    ELSE cur

MeasurementRaises(sensor_data_list) ==
    /\ Len(sensor_data_list) > 0
    /\ FirstRaise(sensor_data_list[1]) <= Len(MeasFields)

\* ---- measurements the remote may send ----
GoodMeas(k) ==
    [id |-> k, time |-> <<1, k>>, local_date |-> <<0, k>>, local_time |-> <<2, k>>,
     moisture |-> 10 * k, sunlight |-> 100 * k, celsius |-> 20 + k,
     fahrenheit |-> 68 + k, battery_level |-> 60 + k]
Measurements ==
    {GoodMeas(1), GoodMeas(2),
     [GoodMeas(2) EXCEPT !.time = <<>>],
     [GoodMeas(2) EXCEPT !.local_time = <<>>],
     [f \in DOMAIN GoodMeas(2) \ {"celsius"} |-> GoodMeas(2)[f]]}
SensorDataLists == UNION {[1..n -> Measurements] : n \in 0..MaxMeas}
SensorResponses == [meta : MetaBlocks, sensor_data : SensorDataLists]

InitSensor ==
    /\ s_metadata = NoneV
    /\ s_id = NoneV /\ s_time = NoneV /\ s_local_date = NoneV /\ s_local_time = NoneV
    /\ s_moisture = NoneV /\ s_sunlight = NoneV /\ s_celsius = NoneV
    /\ s_fahrenheit = NoneV /\ s_battery_level = NoneV
    /\ s_pc = "idle"
    /\ s_outcome = "none"
    /\ s_resp_len = NoneV

\* _async_update_data up to the await of get_sensor_data
SensorPollStart ==
    /\ s_pc = "idle"
    /\ s_pc' = "get_sensor_data"
    /\ UNCHANGED <<ctrlVars, hassVars, sdfVars, actVars>>
    /\ UNCHANGED <<s_metadata, s_id, s_time, s_local_date, s_local_time, s_moisture,
                   s_sunlight, s_celsius, s_fahrenheit, s_battery_level,
                   s_outcome, s_resp_len>>

\* the awaited call raises: the exception leaves _async_update_data
SensorCallRaises ==
    /\ s_pc = "get_sensor_data"
    /\ s_pc' = "idle"
    /\ UNCHANGED <<ctrlVars, hassVars, sdfVars, actVars>>
    /\ s_outcome' = "failed"
    /\ s_resp_len' = NoneV
    /\ UNCHANGED <<s_metadata, s_id, s_time, s_local_date, s_local_time, s_moisture,
                   s_sunlight, s_celsius, s_fahrenheit, s_battery_level>>

\* the awaited call returns res: the rest of _async_update_data
SensorCallReturns(res) ==
    /\ s_pc = "get_sensor_data"
    /\ s_pc' = "idle"
    /\ UNCHANGED <<ctrlVars, hassVars, sdfVars, actVars>>
    /\ s_resp_len' = Some(Len(res.sensor_data))
    /\ IF MetaRaises(res.meta)
       THEN /\ s_outcome' = "failed"
            /\ UNCHANGED <<s_metadata, s_id, s_time, s_local_date, s_local_time,
                           s_moisture, s_sunlight, s_celsius, s_fahrenheit,
                           s_battery_level>>
       ELSE LET new == MeasurementUpdate(SensorFields, res.sensor_data)
            IN  /\ s_metadata' = Some(Meta(res.meta))
                /\ s_id' = new.id
                /\ s_time' = new.time
                /\ s_local_date' = new.local_date
                /\ s_local_time' = new.local_time
                /\ s_moisture' = new.moisture
                /\ s_sunlight' = new.sunlight
                /\ s_celsius' = new.celsius
                /\ s_fahrenheit' = new.fahrenheit
                /\ s_battery_level' = new.battery_level
                /\ s_outcome' = IF MeasurementRaises(res.sensor_data)
                                THEN "failed" ELSE "ok"


(***************************************************************************)
(* Config entries, hass.data[DOMAIN] and the domain's services             *)
(* (__init__.py, async_setup_entry and async_unload_entry).                *)
(* An entry is "not_loaded", "loaded" or, after a failed unload,           *)
(* "failed_unload"; hass.config_entries.async_loaded_entries(DOMAIN)       *)
(* returns the entries that are "loaded".                                  *)
(***************************************************************************)
ControllerEntries == {"c1", "c2"}
SensorEntries     == {"s1", "s2"}
Entries           == ControllerEntries \cup SensorEntries

SERVICE_SET_MOISTURE_NAME   == "set_moisture"
SERVICE_REPORT_WEATHER_NAME == "report_weather"
SERVICE_REFRESH_NAME        == "refresh_data"
SERVICE_NO_WATER_NAME       == "no_water"
EntryServices == {SERVICE_REPORT_WEATHER_NAME, SERVICE_REFRESH_NAME, SERVICE_NO_WATER_NAME}
AllServices   == EntryServices \cup {SERVICE_SET_MOISTURE_NAME}

async_loaded_entries == {e \in Entries : h_loaded[e] = "loaded"}

InitHass ==
    /\ h_loaded = [e \in Entries |-> "not_loaded"]
    /\ h_data = {}
    /\ h_services = {}
    /\ h_unload_result = NoneV

\* async_setup_entry with a first refresh that succeeds: the coordinator is stored
\* and every service that is not registered yet is registered
async_setup_entry(entry) ==
    /\ h_loaded[entry] = "not_loaded"
    /\ UNCHANGED <<ctrlVars, sensVars, sdfVars, actVars>>
    /\ h_data' = h_data \cup {entry}
    /\ h_services' = h_services
                     \cup (IF entry \in ControllerEntries
                           THEN {SERVICE_SET_MOISTURE_NAME} ELSE {})
                     \cup EntryServices
    /\ h_loaded' = [h_loaded EXCEPT ![entry] = "loaded"]
    /\ UNCHANGED h_unload_result

MutMoistureRemovedWithAnyController(entry) ==
    LET other_loaded_entries == {e \in async_loaded_entries : e # entry}
    IN  (IF entry \in ControllerEntries THEN {SERVICE_SET_MOISTURE_NAME} ELSE {})
        \cup (IF other_loaded_entries = {} THEN EntryServices ELSE {})

MutEntryServicesFollowControllers(entry) ==
    LET other_loaded_controllers == {e \in async_loaded_entries : e # entry /\ e \in ControllerEntries}
    IN  (IF entry \in ControllerEntries /\ other_loaded_controllers = {}
         THEN {SERVICE_SET_MOISTURE_NAME} ELSE {})
        \cup (IF other_loaded_controllers = {} THEN EntryServices ELSE {})

\* services async_unload_entry removes, given the other loaded entries
RemovedOnUnload(entry) ==
    LET other_loaded_controllers ==
            {e \in async_loaded_entries : e # entry /\ e \in ControllerEntries}
        other_loaded_entries == {e \in async_loaded_entries : e # entry}
    IN  (IF entry \in ControllerEntries /\ other_loaded_controllers = {}
         THEN {SERVICE_SET_MOISTURE_NAME} ELSE {})
        \cup
        (IF other_loaded_entries = {} THEN EntryServices ELSE {})

\* async_unload_entry; unload_ok is what async_unload_platforms returned
async_unload_entry(entry, unload_ok) ==
    /\ h_loaded[entry] = "loaded"
    /\ UNCHANGED <<ctrlVars, sensVars, sdfVars, actVars>>
    /\ h_data' = IF unload_ok THEN h_data \ {entry} ELSE h_data
    /\ h_services' = h_services \ RemovedOnUnload(entry)
    /\ h_unload_result' = Some(unload_ok)
    /\ h_loaded' = [h_loaded EXCEPT ![entry] =
                        IF unload_ok THEN "not_loaded" ELSE "failed_unload"]


(***************************************************************************)
(* NetroControllerUpdateCoordinator and its Zone (coordinator.py)          *)
(***************************************************************************)
NETRO_SCHEDULE_EXECUTED  == "EXECUTED"
NETRO_SCHEDULE_EXECUTING == "EXECUTING"
NETRO_SCHEDULE_VALID     == "VALID"

\* constructor arguments of the coordinator under study
serial_number    == "SERIAL"
device_name      == "Netro"
refresh_interval == 15
slowdown_factors ==
    prepare_slowdown_factors(Some(<<[from |-> <<22, 30>>, to |-> <<6, 0>>, sdf |-> 2]>>))

\* Python's str comparison a < b, character by character
RECURSIVE StrLess(_, _)
StrLess(a, b) ==
    IF a = <<>> THEN b # <<>>
    ELSE IF b = <<>> THEN FALSE
    ELSE IF a[1] # b[1] THEN a[1] < b[1]
    ELSE StrLess(Tail(a), Tail(b))

\* strftime("%Y-%m-%dT%H:%M:%S", gmtime()): the clock as fixed-width text
strftime_gmtime(clock) == <<clock \div 10, clock % 10>>

\* sorted(..., key=start_time, reverse=False): stable, ascending on the text
RECURSIVE InsertAscending(_, _)
InsertAscending(sorted, x) ==
    IF sorted = <<>> THEN <<x>>
    ELSE IF StrLess(x.start_time, sorted[1].start_time) THEN <<x>> \o sorted
    ELSE <<sorted[1]>> \o InsertAscending(Tail(sorted), x)

RECURSIVE SortAscendingFrom(_, _, _)
SortAscendingFrom(list, i, acc) ==
    IF i > Len(list) THEN acc
    ELSE SortAscendingFrom(list, i + 1, InsertAscending(acc, list[i]))

SortedAscending(list) == SortAscendingFrom(list, 1, <<>>)

\* sorted(..., key=start_time, reverse=True): stable, descending on the text
RECURSIVE InsertDescending(_, _)
InsertDescending(sorted, x) ==
    IF sorted = <<>> THEN <<x>>
    ELSE IF StrLess(sorted[1].start_time, x.start_time) THEN <<x>> \o sorted
    ELSE <<sorted[1]>> \o InsertDescending(Tail(sorted), x)

RECURSIVE SortDescendingFrom(_, _, _)
SortDescendingFrom(list, i, acc) ==
    IF i > Len(list) THEN acc
    ELSE SortDescendingFrom(list, i + 1, InsertDescending(acc, list[i]))

MutSortedDescendingAsAscending(list) == SortAscendingFrom(list, 1, <<>>)

SortedDescending(list) == SortDescendingFrom(list, 1, <<>>)

\* the two list comprehensions of _update_from_schedules
MutIsPastExecutedOnly(schedule, zone_key) ==
    /\ schedule.zone = zone_key
    /\ schedule.status \in {NETRO_SCHEDULE_EXECUTED}

IsPast(schedule, zone_key) ==
    /\ schedule.zone = zone_key
    /\ schedule.status \in {NETRO_SCHEDULE_EXECUTED, NETRO_SCHEDULE_EXECUTING}

MutIsComingNotStrict(schedule, zone_key, now) ==
    /\ schedule.zone = zone_key
    /\ schedule.status = NETRO_SCHEDULE_VALID
    /\ ~StrLess(schedule.start_time, now)

IsComing(schedule, zone_key, now) ==
    /\ schedule.zone = zone_key
    /\ schedule.status = NETRO_SCHEDULE_VALID
    /\ StrLess(now, schedule.start_time)

\* _update_from_schedules: the zones with their two lists replaced
update_from_schedules(active_zones, schedules, now) ==
    [zone_key \in DOMAIN active_zones |->
        LET Past(schedule)   == IsPast(schedule, zone_key)
            Coming(schedule) == IsComing(schedule, zone_key, now)
        IN  [active_zones[zone_key] EXCEPT
                !.past_schedules   = SortedDescending(SelectSeq(schedules, Past)),
                !.coming_schedules = SortedAscending(SelectSeq(schedules, Coming))]]

\* _update_from_moistures: the zones with their moistures replaced
MutMoisturesNotFiltered(active_zones, moistures) ==
    [zone_key \in DOMAIN active_zones |->
        [active_zones[zone_key] EXCEPT !.moistures = moistures]]

update_from_moistures(active_zones, moistures) ==
    [zone_key \in DOMAIN active_zones |->
        LET Mine(moisture) == moisture.zone = zone_key
        IN  [active_zones[zone_key] EXCEPT !.moistures = SelectSeq(moistures, Mine)]]

\* Zone.__init__, with the name chosen by the caller (lines 810-815) and the
\* class-level (empty) lists a new zone reads until they are assigned
MutZoneCarriesLists(zone) ==
    LET old == IF zone.ith \in DOMAIN c_active_zones
               THEN c_active_zones[zone.ith]
               ELSE [past_schedules |-> <<>>, coming_schedules |-> <<>>, moistures |-> <<>>]
    IN  [ith           |-> zone.ith,
         enabled       |-> zone.enabled,
         smart         |-> zone.smart,
         name          |-> IF zone.name # NoneV /\ Len(zone.name[1]) > 0
                           THEN <<zone.name[1]>>
                           ELSE <<device_name, "-", ToString(zone.ith)>>,
         serial_number |-> <<serial_number, "_", ToString(zone.ith)>>,
         past_schedules   |-> old.past_schedules,
         coming_schedules |-> old.coming_schedules,
         moistures        |-> old.moistures]

Zone(zone) ==
    [ith           |-> zone.ith,
     enabled       |-> zone.enabled,
     smart         |-> zone.smart,
     name          |-> IF zone.name # NoneV /\ Len(zone.name[1]) > 0
                       THEN <<zone.name[1]>>
                       ELSE <<device_name, "-", ToString(zone.ith)>>,
     serial_number |-> <<serial_number, "_", ToString(zone.ith)>>,
     past_schedules   |-> <<>>,
     coming_schedules |-> <<>>,
     moistures        |-> <<>>]

\* self._active_zones.clear()
MutZonesNotCleared(active_zones) == active_zones

ClearedZones(active_zones) == <<>>

\* the loop "for zone in device_data[NETRO_CONTROLLER_ZONES]" over the emptied
\* dict: stops at the first entry whose "enabled" key is missing (KeyError)
RECURSIVE LoadZones(_, _, _)
LoadZones(zones, i, acc) ==
    IF i > Len(zones) THEN [active_zones |-> acc, raised |-> FALSE]
    ELSE IF "enabled" \notin DOMAIN zones[i] THEN [active_zones |-> acc, raised |-> TRUE]
    ELSE IF zones[i].enabled
         THEN LoadZones(zones, i + 1,
                        [k \in DOMAIN acc \cup {zones[i].ith} |->
                            IF k = zones[i].ith THEN Zone(zones[i]) ELSE acc[k]])
         ELSE LoadZones(zones, i + 1, acc)

\* Zone.last_run, Zone.watering
last_run(zone) ==
    IF Len(zone.past_schedules) # 0 THEN Some(zone.past_schedules[1]) ELSE NoneV

MutWateringAnyExecuting(zone) ==
    \E i \in DOMAIN zone.past_schedules :
        zone.past_schedules[i].status = NETRO_SCHEDULE_EXECUTING

watering(zone) ==
    IF last_run(zone) # NoneV
    THEN last_run(zone)[1].status = NETRO_SCHEDULE_EXECUTING
    ELSE FALSE


\* ZoneWateringSwitch.is_on (switch.py)
is_on(zone_id) == watering(c_active_zones[zone_id])

\* ---- what the remote may answer ----
RemoteZoneName(i) == IF i = 1 THEN Some("Lawn") ELSE NoneV
ZoneEntries ==
    {[ith |-> i, enabled |-> e, smart |-> "SMART", name |-> RemoteZoneName(i)] :
        i \in Zones, e \in BOOLEAN}
    \cup {[ith |-> i, smart |-> "SMART", name |-> RemoteZoneName(i)] : i \in Zones}
\* the remote lists each zone at most once, by increasing index
ZoneLists ==
    {zs \in UNION {[1..n -> ZoneEntries] : n \in 0..MaxZone} :
        \A i, j \in DOMAIN zs : i < j => zs[i].ith < zs[j].ith}
\* status, meta block and battery reading vary together; NoneV is a device
\* that reports no battery_level; one answer carries a malformed meta block
DeviceVariants ==
    {<<"ONLINE", GoodMeta(1), NoneV>>, <<"WATERING", GoodMeta(2), Some(1)>>,
     <<"ONLINE", GoodMeta(2), Some(0)>>, <<"WATERING", BadTimeMeta, Some(1)>>}
Device(zs, st, b) ==
    IF b = NoneV
    THEN [zone_num |-> Len(zs), status |-> st, zones |-> zs]
    ELSE [zone_num |-> Len(zs), status |-> st, zones |-> zs, battery_level |-> b[1]]
InfoResponses ==
    {[device |-> Device(zs, v[1], v[3]), meta |-> v[2]] : zs \in ZoneLists, v \in DeviceVariants}

StartTimes == {<<0, 1>>, <<1, 0>>, <<1, 1>>}
ScheduleRecord(z, t, st) ==
    [zone |-> z, start_time |-> t, end_time |-> <<t[1], t[2] + 1>>,
     status |-> st, source |-> "MANUAL"]
ScheduleRecords ==
    {ScheduleRecord(z, t, st) :
        z \in Zones, t \in StartTimes,
        st \in {NETRO_SCHEDULE_VALID, NETRO_SCHEDULE_EXECUTED, NETRO_SCHEDULE_EXECUTING}}
ScheduleLists == UNION {[1..n -> ScheduleRecords] : n \in 0..MaxSched}
Clocks == {1, 10}

\* the answers used where polls repeat
PollMoistureLists ==
    {<<>>, <<[zone |-> 1, moisture |-> 35]>>,
     <<[zone |-> 2, moisture |-> 40], [zone |-> 1, moisture |-> 30]>>}
PollScheduleLists ==
    {<<>>,
     <<ScheduleRecord(1, <<1, 0>>, NETRO_SCHEDULE_EXECUTING),
       ScheduleRecord(2, <<1, 1>>, NETRO_SCHEDULE_VALID)>>,
     <<ScheduleRecord(2, <<0, 1>>, NETRO_SCHEDULE_EXECUTED),
       ScheduleRecord(1, <<0, 1>>, NETRO_SCHEDULE_EXECUTED)>>}
PollClocks == {10}
PollTimes == {[hour |-> 12, minute |-> 0, second |-> 0],
              [hour |-> 23, minute |-> 0, second |-> 0]}

InitController ==
    /\ c_zone_num = NoneV
    /\ c_status = NoneV
    /\ c_metadata = NoneV
    /\ c_battery_level = NoneV
    /\ c_active_zones = <<>>
    /\ c_schedules = <<>>
    /\ c_moistures = <<>>
    /\ c_current_slowdown_factor = 1
    /\ c_update_interval = refresh_interval
    /\ c_pc = "idle"
    /\ c_outcome = "none"
    /\ c_info_zones = NoneV
    /\ c_info_battery = NoneV
    /\ c_sched_resp = NoneV
    /\ c_now = NoneV
    /\ c_keys_before = {}
    /\ c_calls = <<>>
    /\ c_poll_time = NoneV
    /\ c_views = <<>>
    /\ c_zone_entities = NoneV

\* one entry of the record of remote calls: kind is "call", "return" or "raise"
RemoteEvent(kind, api) == <<kind, api>>

MutPollStartLeavesInterval(this_time) ==
    /\ c_pc = "idle"
    /\ c_pc' = "get_info"
    /\ c_outcome' = "polling"
    /\ c_keys_before' = DOMAIN c_active_zones
    /\ c_calls' = <<RemoteEvent("call", "get_info")>>
    /\ c_poll_time' = Some(this_time)
    /\ c_views' = <<c_active_zones>>
    /\ UNCHANGED <<c_zone_num, c_status, c_metadata, c_battery_level, c_active_zones,
                   c_schedules, c_moistures, c_info_zones, c_info_battery, c_sched_resp, c_now,
                   c_current_slowdown_factor, c_update_interval>>
    /\ UNCHANGED <<c_zone_entities, sensVars, hassVars, sdfVars, actVars>>

\* _async_update_data up to the await of get_info (lines 760-781)
ControllerPollStart(this_time) ==
    /\ c_pc = "idle"
    /\ c_current_slowdown_factor' = get_slowdown_factor(slowdown_factors, this_time)
    /\ c_update_interval' = refresh_interval * c_current_slowdown_factor'
    /\ c_pc' = "get_info"
    /\ c_outcome' = "polling"
    /\ c_keys_before' = DOMAIN c_active_zones
    /\ c_calls' = <<RemoteEvent("call", "get_info")>>
    /\ c_poll_time' = Some(this_time)
    /\ c_views' = <<c_active_zones>>
    /\ UNCHANGED <<c_zone_num, c_status, c_metadata, c_battery_level, c_active_zones,
                   c_schedules, c_moistures, c_info_zones, c_info_battery, c_sched_resp, c_now>>
    /\ UNCHANGED <<c_zone_entities, sensVars, hassVars, sdfVars, actVars>>

\* the three awaited calls of _async_update_data, in the order of its text
PollOrder == <<"get_info", "get_moistures", "get_schedules">>

MutCallRaisesGoesOn ==
    /\ c_pc \in {"get_info", "get_moistures", "get_schedules"}
    /\ c_outcome' = IF c_pc = "get_schedules" THEN "failed_schedules" ELSE c_outcome
    /\ c_pc' = CASE c_pc = "get_info"      -> "get_moistures"
                 [] c_pc = "get_moistures" -> "get_schedules"
                 [] c_pc = "get_schedules" -> "idle"
    /\ c_calls' = IF c_pc = "get_schedules"
                  THEN Append(c_calls, RemoteEvent("raise", c_pc))
                  ELSE c_calls \o <<RemoteEvent("raise", c_pc), RemoteEvent("call", c_pc')>>
    /\ UNCHANGED <<c_zone_num, c_status, c_metadata, c_battery_level, c_active_zones,
                   c_schedules, c_moistures, c_current_slowdown_factor,
                   c_update_interval, c_info_zones, c_info_battery, c_sched_resp, c_now,
                   c_keys_before, c_poll_time, c_views>>
    /\ UNCHANGED <<c_zone_entities, sensVars, hassVars, sdfVars, actVars>>

\* an awaited remote call raises: the exception leaves _async_update_data
ControllerCallRaises ==
    /\ c_pc \in {"get_info", "get_moistures", "get_schedules"}
    /\ c_outcome' = CASE c_pc = "get_info"      -> "failed_info"
                      [] c_pc = "get_moistures" -> "failed_moistures"
                      [] c_pc = "get_schedules" -> "failed_schedules"
    /\ c_pc' = "idle"
    /\ c_calls' = Append(c_calls, RemoteEvent("raise", c_pc))
    /\ UNCHANGED <<c_zone_num, c_status, c_metadata, c_battery_level, c_active_zones,
                   c_schedules, c_moistures, c_current_slowdown_factor,
                   c_update_interval, c_info_zones, c_info_battery, c_sched_resp, c_now,
                   c_keys_before, c_poll_time, c_views>>
    /\ UNCHANGED <<c_zone_entities, sensVars, hassVars, sdfVars, actVars>>

\* get_info returns res: lines 783-817, up to the await of get_moistures
GetInfoReturns(res) ==
    LET device_data == res.device
        meta_raises == MetaRaises(res.meta)
        loaded      == LoadZones(device_data.zones, 1, ClearedZones(c_active_zones))
    IN  /\ c_pc = "get_info"
        /\ c_info_zones' = Some(device_data.zones)
        /\ c_info_battery' = IF "battery_level" \in DOMAIN device_data
                           THEN Some(device_data.battery_level) ELSE NoneV
        /\ c_zone_num' = Some(device_data.zone_num)
        /\ c_status' = Some(device_data.status)
        /\ IF meta_raises
           THEN /\ UNCHANGED <<c_metadata, c_battery_level, c_active_zones, c_views>>
                /\ c_pc' = "idle"
                /\ c_outcome' = "failed_info"
                /\ c_calls' = Append(c_calls, RemoteEvent("return", "get_info"))
           ELSE /\ c_metadata' = Some(Meta(res.meta))
                /\ c_battery_level' =
                       IF "battery_level" \in DOMAIN device_data
                          /\ device_data.battery_level # 0
                       THEN Some(device_data.battery_level * 100)
                       ELSE c_battery_level
                /\ c_active_zones' = loaded.active_zones
                /\ c_pc' = IF loaded.raised THEN "idle" ELSE "get_moistures"
                /\ c_outcome' = IF loaded.raised THEN "failed_info" ELSE c_outcome
                /\ c_calls' =
                       IF loaded.raised
                       THEN Append(c_calls, RemoteEvent("return", "get_info"))
                       ELSE c_calls \o <<RemoteEvent("return", "get_info"),
                                         RemoteEvent("call", "get_moistures")>>
                /\ c_views' = IF loaded.raised THEN c_views
                              ELSE Append(c_views, loaded.active_zones)
        /\ UNCHANGED <<c_schedules, c_moistures, c_current_slowdown_factor,
                       c_update_interval, c_sched_resp, c_now, c_keys_before, c_poll_time>>
        /\ UNCHANGED <<c_zone_entities, sensVars, hassVars, sdfVars, actVars>>

\* get_moistures returns: line 826, up to the await of get_schedules
GetMoisturesReturns(moistures) ==
    /\ c_pc = "get_moistures"
    /\ c_moistures' = moistures
    /\ c_active_zones' = update_from_moistures(c_active_zones, moistures)
    /\ c_pc' = "get_schedules"
    /\ c_calls' = c_calls \o <<RemoteEvent("return", "get_moistures"),
                               RemoteEvent("call", "get_schedules")>>
    /\ c_views' = Append(c_views, c_active_zones')
    /\ UNCHANGED <<c_zone_num, c_status, c_metadata, c_battery_level, c_schedules,
                   c_current_slowdown_factor, c_update_interval, c_outcome,
                   c_info_zones, c_info_battery, c_sched_resp, c_now, c_keys_before,
                   c_poll_time>>
    /\ UNCHANGED <<c_zone_entities, sensVars, hassVars, sdfVars, actVars>>

\* get_schedules returns: line 844, the end of _async_update_data; clock is the
\* wall clock the reconciliation reads
GetSchedulesReturns(schedules, clock) ==
    /\ c_pc = "get_schedules"
    /\ c_schedules' = SortedAscending(schedules)
    /\ c_active_zones' =
           update_from_schedules(c_active_zones, schedules, strftime_gmtime(clock))
    /\ c_pc' = "idle"
    /\ c_outcome' = "ok"
    /\ c_sched_resp' = Some(schedules)
    /\ c_now' = Some(strftime_gmtime(clock))
    /\ c_calls' = Append(c_calls, RemoteEvent("return", "get_schedules"))
    /\ UNCHANGED <<c_zone_num, c_status, c_metadata, c_battery_level, c_moistures,
                   c_current_slowdown_factor, c_update_interval, c_info_zones, c_info_battery,
                   c_keys_before, c_poll_time, c_views>>
    /\ UNCHANGED <<c_zone_entities, sensVars, hassVars, sdfVars, actVars>>

(***************************************************************************)
(* Specifications                                                          *)
(***************************************************************************)
\* one controller coordinator, polled again and again
(***************************************************************************)
(* Action methods: each sends one request to the remote API.  A request is *)
(* the payload netrofunction builds; a key the code leaves out of the      *)
(* payload is a field absent from the record.                              *)
(***************************************************************************)
NETRO_STATUS_ENABLE  == 1
NETRO_STATUS_DISABLE == 0

ParkedAct ==
    /\ a_handler = "none"
    /\ a_args = <<>>
    /\ a_pc = "idle"
    /\ a_trace = <<>>
    /\ a_result = "none"

\* payload[k] = v
Put(payload, k, v) == [x \in DOMAIN payload \cup {k} |-> IF x = k THEN v ELSE payload[x]]

\* ",".join(zone_ids)
RECURSIVE JoinComma(_)
JoinComma(zone_ids) ==
    IF Len(zone_ids) = 0 THEN <<>>
    ELSE IF Len(zone_ids) = 1 THEN <<zone_ids[1]>>
    ELSE <<zone_ids[1], ",">> \o JoinComma(Tail(zone_ids))

\* start_time.strftime("%Y-%m-%d %H:%M"): the seconds are dropped
strftime_ymd_hm(start_time) ==
    <<start_time.year, start_time.month, start_time.day, start_time.hour, start_time.minute>>

\* netrofunction.set_status, stop_water, no_water, water: the payload posted
netro_set_status(key, status) == [key |-> key, status |-> status]

netro_stop_water(key) == [key |-> key]

MutNoWaterDropsDays(key, days) == [key |-> key]

netro_no_water(key, days) ==
    IF days # NoneV THEN [key |-> key, days |-> days[1]] ELSE [key |-> key]

netro_water(key, duration, zone_ids, delay, start_time) ==
    LET p0 == [key |-> key, duration |-> duration]
        p1 == IF zone_ids # NoneV
              THEN Put(p0, "zones", <<"[">> \o JoinComma(zone_ids[1]) \o <<"]">>)
              ELSE p0
        p2 == IF delay > 0 THEN Put(p1, "delay", delay) ELSE p1
    IN  IF start_time # NoneV /\ start_time[1] # <<>>
        THEN Put(p2, "start_time", start_time[1])
        ELSE p2

\* what a call leaves in a_trace
RemoteCall(api, payload) == [kind |-> "remote", api |-> api, payload |-> payload]
Slept(seconds) == [kind |-> "sleep", seconds |-> seconds]
RefreshRequested == [kind |-> "refresh"]

\* the requests of the coordinator's and the zone's action methods
enable_request == RemoteCall("set_status", netro_set_status(serial_number, NETRO_STATUS_ENABLE))

disable_request == RemoteCall("set_status", netro_set_status(serial_number, NETRO_STATUS_DISABLE))

start_watering_request(duration, delay, start_time) ==
    RemoteCall("water",
               netro_water(serial_number, duration, NoneV, delay,
                           IF start_time # NoneV
                           THEN Some(strftime_ymd_hm(start_time[1])) ELSE NoneV))

stop_watering_request == RemoteCall("stop_water", netro_stop_water(serial_number))

Zone_start_watering_request(ith, duration, delay, start_time) ==
    RemoteCall("water",
               netro_water(serial_number, duration, Some(<<ToString(ith)>>), delay,
                           IF start_time # NoneV
                           THEN Some(strftime_ymd_hm(start_time[1])) ELSE NoneV))

MutZoneStopFiltersZone(ith) ==
    RemoteCall("stop_water", Put(netro_stop_water(serial_number), "zones", <<"[", ToString(ith), "]">>))

Zone_stop_watering_request(ith) == RemoteCall("stop_water", netro_stop_water(serial_number))

\* no_water(days=1) of the controller coordinator
DefaultNoWaterDays == 1
no_water_request(days) ==
    RemoteCall("no_water",
               netro_no_water(serial_number,
                              IF days # NoneV THEN days ELSE Some(DefaultNoWaterDays)))

\* a handler sends its request and is suspended at the await of the remote call
Invoke(handler, args, request) ==
    /\ a_handler' = handler
    /\ a_args' = args
    /\ a_trace' = <<request>>
    /\ a_pc' = "remote"
    /\ a_result' = "running"
    /\ UNCHANGED <<ctrlVars, sensVars, hassVars, sdfVars>>

ActionMethods ==
    {"enable", "disable", "start_watering", "stop_watering", "no_water",
     "Zone.start_watering", "Zone.stop_watering"}
WateringSwitches ==
    {"ZoneWateringSwitch.async_turn_on", "ZoneWateringSwitch.async_turn_off",
     "ControllerWateringSwitch.async_turn_on", "ControllerWateringSwitch.async_turn_off"}

enable ==
    /\ a_pc = "idle"
    /\ Invoke("enable", <<>>, enable_request)

disable ==
    /\ a_pc = "idle"
    /\ Invoke("disable", <<>>, disable_request)

start_watering(duration, delay, start_time) ==
    /\ a_pc = "idle"
    /\ Invoke("start_watering",
              [duration |-> duration, delay |-> delay, start_time |-> start_time],
              start_watering_request(duration, delay, start_time))

MutStopWateringPolls ==
    /\ a_pc = "idle" /\ c_pc = "idle"
    /\ a_handler' = "stop_watering"
    /\ a_args' = <<>>
    /\ a_trace' = <<stop_watering_request>>
    /\ a_pc' = "remote"
    /\ a_result' = "running"
    /\ c_pc' = "get_info"
    /\ UNCHANGED <<c_zone_num, c_status, c_metadata, c_battery_level, c_active_zones,
                   c_schedules, c_moistures, c_current_slowdown_factor, c_update_interval,
                   c_outcome, c_info_zones, c_info_battery, c_sched_resp, c_now, c_keys_before,
                   c_calls, c_poll_time, c_views>>
    /\ UNCHANGED <<c_zone_entities, sensVars, hassVars, sdfVars>>

stop_watering ==
    /\ a_pc = "idle"
    /\ Invoke("stop_watering", <<>>, stop_watering_request)

no_water(days) ==
    /\ a_pc = "idle"
    /\ Invoke("no_water", [days |-> days], no_water_request(days))

\* the methods of the Zone objects the coordinator currently holds
Zone_start_watering(ith, duration, delay, start_time) ==
    /\ a_pc = "idle"
    /\ ith \in DOMAIN c_active_zones
    /\ Invoke("Zone.start_watering",
              [ith |-> ith, duration |-> duration, delay |-> delay, start_time |-> start_time],
              Zone_start_watering_request(ith, duration, delay, start_time))

Zone_stop_watering(ith) ==
    /\ a_pc = "idle"
    /\ ith \in DOMAIN c_active_zones
    /\ Invoke("Zone.stop_watering", [ith |-> ith], Zone_stop_watering_request(ith))

\* the awaited remote call raises: the exception leaves the handler
RemoteRaises ==
    /\ a_pc = "remote"
    /\ a_pc' = "idle"
    /\ a_result' = "raised"
    /\ UNCHANGED <<a_handler, a_args, a_trace>>
    /\ UNCHANGED <<ctrlVars, sensVars, hassVars, sdfVars>>

\* the awaited remote call returns: an action method is done
ActionReturns ==
    /\ a_pc = "remote"
    /\ a_handler \in ActionMethods
    /\ a_pc' = "idle"
    /\ a_result' = "ok"
    /\ UNCHANGED <<a_handler, a_args, a_trace>>
    /\ UNCHANGED <<ctrlVars, sensVars, hassVars, sdfVars>>

(***************************************************************************)
(* The watering switches (switch.py): the action, a wait, a refresh        *)
(* request.                                                                *)
(***************************************************************************)
duration_minutes       == 30
delay_minutes          == 5
before_refresh_seconds == 10

\* kwargs.get(key, default)
Get(kwargs, key, default) == IF key \in DOMAIN kwargs THEN kwargs[key] ELSE default

\* dt_util.as_utc: the same instant on the UTC clock
as_utc(start_time) ==
    [start_time EXCEPT !.hour = start_time.hour - start_time.utcoffset, !.utcoffset = 0]

\* the three arguments async_turn_on hands to start_watering
TurnOnDuration(kwargs) == Get(kwargs, "duration", duration_minutes)
TurnOnDelay(kwargs) == Get(kwargs, "delay", delay_minutes)
TurnOnStartTime(kwargs) ==
    IF Get(kwargs, "start_time", NoneV) # NoneV
    THEN Some(as_utc(kwargs.start_time[1])) ELSE NoneV

\* self.coordinator.active_zones[self._zone_id] of a zone that is not active
SwitchKeyError(handler, args) ==
    /\ a_handler' = handler
    /\ a_args' = args
    /\ a_pc' = "idle"
    /\ a_result' = "KeyError"
    /\ UNCHANGED <<ctrlVars, sensVars, hassVars, sdfVars>>

ZoneWateringSwitch_async_turn_on(zone_id, kwargs) ==
    /\ a_pc = "idle"
    /\ IF zone_id \in DOMAIN c_active_zones
       THEN Invoke("ZoneWateringSwitch.async_turn_on", [zone_id |-> zone_id, kwargs |-> kwargs],
                   Zone_start_watering_request(zone_id, TurnOnDuration(kwargs),
                                               TurnOnDelay(kwargs), TurnOnStartTime(kwargs)))
       ELSE /\ SwitchKeyError("ZoneWateringSwitch.async_turn_on",
                              [zone_id |-> zone_id, kwargs |-> kwargs])
            /\ a_trace' = <<>>

ZoneWateringSwitch_async_turn_off(zone_id) ==
    /\ a_pc = "idle"
    /\ IF zone_id \in DOMAIN c_active_zones
       THEN Invoke("ZoneWateringSwitch.async_turn_off", [zone_id |-> zone_id],
                   Zone_stop_watering_request(zone_id))
       ELSE /\ SwitchKeyError("ZoneWateringSwitch.async_turn_off", [zone_id |-> zone_id])
            /\ a_trace' = <<>>

ControllerWateringSwitch_async_turn_on(kwargs) ==
    /\ a_pc = "idle"
    /\ Invoke("ControllerWateringSwitch.async_turn_on", [kwargs |-> kwargs],
              start_watering_request(TurnOnDuration(kwargs), TurnOnDelay(kwargs),
                                     TurnOnStartTime(kwargs)))

ControllerWateringSwitch_async_turn_off ==
    /\ a_pc = "idle"
    /\ Invoke("ControllerWateringSwitch.async_turn_off", <<>>, stop_watering_request)

\* the action has returned: the switch logs (a zone switch reads the zone's name
\* from active_zones again) and starts to sleep
MutSwitchRefreshesAtOnce ==
    /\ a_pc = "remote"
    /\ a_handler \in WateringSwitches
    /\ a_trace' = Append(a_trace, RefreshRequested)
    /\ a_pc' = "sleep"
    /\ UNCHANGED <<a_handler, a_args, a_result>>
    /\ UNCHANGED <<ctrlVars, sensVars, hassVars, sdfVars>>

SwitchActionReturns ==
    /\ a_pc = "remote"
    /\ a_handler \in WateringSwitches
    /\ IF "zone_id" \in DOMAIN a_args /\ a_args.zone_id \notin DOMAIN c_active_zones
       THEN SwitchKeyError(a_handler, a_args) /\ UNCHANGED a_trace
       ELSE /\ a_pc' = "sleep"
            /\ UNCHANGED <<a_handler, a_args, a_trace, a_result>>
            /\ UNCHANGED <<ctrlVars, sensVars, hassVars, sdfVars>>

\* await asyncio.sleep(self._before_refresh_seconds) is over
SleepElapses ==
    /\ a_pc = "sleep"
    /\ a_trace' = Append(a_trace, Slept(before_refresh_seconds))
    /\ a_pc' = "refresh"
    /\ UNCHANGED <<a_handler, a_args, a_result>>
    /\ UNCHANGED <<ctrlVars, sensVars, hassVars, sdfVars>>

\* await coordinator.async_request_refresh(), the handler's last statement
async_request_refresh ==
    /\ a_pc = "refresh"
    /\ a_trace' = Append(a_trace, RefreshRequested)
    /\ a_pc' = "idle"
    /\ a_result' = "ok"
    /\ UNCHANGED <<a_handler, a_args>>
    /\ UNCHANGED <<ctrlVars, sensVars, hassVars, sdfVars>>

\* keyword arguments of a turn_on call
SwitchStartTimes ==
    {Some([year |-> 2025, month |-> 6, day |-> 1, hour |-> 14, minute |-> 30, second |-> 0,
           utcoffset |-> 2])}
SwitchKwargs ==
    {<<>>, [duration |-> 15, delay |-> 0]}
    \cup {[start_time |-> st] : st \in SwitchStartTimes}

(***************************************************************************)
(* The entry-addressed services (__init__.py): report_weather,             *)
(* refresh_data, no_water.  hass.data[DOMAIN][entry_id] is the entry's     *)
(* coordinator; a sensor coordinator has no no_water method.               *)
(***************************************************************************)
EntrySerial == [e \in Entries |-> <<serial_number, "_", e>>]

ServiceHandlers == {"report_weather", "refresh", "nowater"}

\* str(weather_asof) of a date whose month and day have two digits
str_date(d) == <<ToString(d.year), "-", ToString(d.month), "-", ToString(d.day)>>

\* client.report_weather with every optional value None: key and date only
report_weather_request(key, weather_asof) ==
    RemoteCall("report_weather", [key |-> key, date |-> str_date(weather_asof)])

\* the handler raises before its first await
ServiceRaises(handler, args, error) ==
    /\ a_handler' = handler
    /\ a_args' = args
    /\ a_trace' = <<>>
    /\ a_pc' = "idle"
    /\ a_result' = error
    /\ UNCHANGED <<ctrlVars, sensVars, hassVars, sdfVars>>

report_weather(entry_id, weather_asof) ==
    LET args == [entry_id |-> entry_id, date |-> weather_asof]
    IN  /\ a_pc = "idle"
        /\ SERVICE_REPORT_WEATHER_NAME \in h_services
        /\ IF entry_id \notin h_data
           THEN ServiceRaises("report_weather", args, "HomeAssistantError")
           ELSE IF weather_asof = NoneV
           THEN ServiceRaises("report_weather", args, "HomeAssistantError")
           ELSE Invoke("report_weather", args,
                       report_weather_request(EntrySerial[entry_id], weather_asof[1]))

MutRefreshWithoutCheck(entry_id) ==
    /\ a_pc = "idle"
    /\ SERVICE_REFRESH_NAME \in h_services
    /\ a_handler' = "refresh"
    /\ a_args' = [entry_id |-> entry_id]
    /\ a_trace' = <<>>
    /\ a_pc' = "refresh"
    /\ a_result' = "running"
    /\ UNCHANGED <<ctrlVars, sensVars, hassVars, sdfVars>>

refresh(entry_id) ==
    /\ a_pc = "idle"
    /\ SERVICE_REFRESH_NAME \in h_services
    /\ IF entry_id \notin h_data
       THEN ServiceRaises("refresh", [entry_id |-> entry_id], "HomeAssistantError")
       ELSE /\ a_handler' = "refresh"
            /\ a_args' = [entry_id |-> entry_id]
            /\ a_trace' = <<>>
            /\ a_pc' = "refresh"
            /\ a_result' = "running"
            /\ UNCHANGED <<ctrlVars, sensVars, hassVars, sdfVars>>

nowater(entry_id, days) ==
    LET args == [entry_id |-> entry_id, days |-> days]
    IN  /\ a_pc = "idle"
        /\ SERVICE_NO_WATER_NAME \in h_services
        /\ IF entry_id \notin h_data
           THEN ServiceRaises("nowater", args, "HomeAssistantError")
           ELSE IF entry_id \notin ControllerEntries
           THEN ServiceRaises("nowater", args, "AttributeError")
           ELSE Invoke("nowater", args,
                       RemoteCall("no_water", netro_no_water(EntrySerial[entry_id], Some(days))))

\* the awaited remote call returns: report_weather is done, nowater goes on to
\* request a refresh
ServiceActionReturns ==
    /\ a_pc = "remote"
    /\ a_handler \in {"report_weather", "nowater"}
    /\ a_pc' = IF a_handler = "nowater" THEN "refresh" ELSE "idle"
    /\ a_result' = IF a_handler = "nowater" THEN a_result ELSE "ok"
    /\ UNCHANGED <<a_handler, a_args, a_trace>>
    /\ UNCHANGED <<ctrlVars, sensVars, hassVars, sdfVars>>

\* service call data
UnknownEntry == "unknown"
CallEntryIds == Entries \cup {UnknownEntry}
WeatherDates == {NoneV, Some([year |-> 2025, month |-> 10, day |-> 15])}
ServiceDays == {3}

(***************************************************************************)
(* The calendar's current event (coordinator.py): the first schedule of    *)
(* _schedules that has not ended, as a calendar event.  Timestamps count   *)
(* minutes.                                                                *)
(***************************************************************************)
NETRO_SCHEDULE_FIX    == "FIX"
NETRO_SCHEDULE_SMART  == "SMART"
NETRO_SCHEDULE_MANUAL == "MANUAL"

source_label(source) ==
    CASE source = NETRO_SCHEDULE_FIX    -> <<"schedule from programs">>
      [] source = NETRO_SCHEDULE_SMART  -> <<"Netro generated schedule">>
      [] source = NETRO_SCHEDULE_MANUAL -> <<"manual watering">>
      [] OTHER -> <<"unknown source(", source, ")">>

status_label(status) ==
    CASE status = NETRO_SCHEDULE_EXECUTED  -> <<"has been executed">>
      [] status = NETRO_SCHEDULE_EXECUTING -> <<"currently being executed">>
      [] status = NETRO_SCHEDULE_VALID     -> <<"is planned">>
      [] OTHER -> <<"unknown status(", status, ")">>

\* _calendar_schedule: active_zones[schedule["zone"]] is read for the summary
calendar_schedule_raises(active_zones, schedule) == schedule.zone \notin DOMAIN active_zones

calendar_schedule(active_zones, schedule) ==
    [start   |-> fromisoformat(schedule.start_time),
     end     |-> fromisoformat(schedule.end_time),
     summary |-> active_zones[schedule.zone].name,
     description |->
         <<"Duration: ",
           ToString(fromisoformat(schedule.end_time) - fromisoformat(schedule.start_time)),
           " minutes, ">> \o source_label(schedule.source) \o <<", ">>
           \o status_label(schedule.status) \o <<".">>]

\* the loop of current_calendar_schedule: index of the first schedule whose
\* end_time is greater than now (as text), 0 if there is none
RECURSIVE FirstNotEnded(_, _, _)
FirstNotEnded(schedules, i, now) ==
    IF i > Len(schedules) THEN 0
    ELSE IF StrLess(now, schedules[i].end_time) THEN i
    ELSE FirstNotEnded(schedules, i + 1, now)

Returned(value) == [kind |-> "return", value |-> value]

\* the property current_calendar_schedule is read at time clock
current_calendar_schedule(clock) ==
    LET now == strftime_gmtime(clock)
        i   == FirstNotEnded(c_schedules, 1, now)
    IN  /\ a_pc = "idle"
        /\ a_handler' = "current_calendar_schedule"
        /\ a_args' = [now |-> now]
        /\ a_pc' = "idle"
        /\ IF i = 0
           THEN a_trace' = <<Returned(NoneV)>> /\ a_result' = "ok"
           ELSE IF calendar_schedule_raises(c_active_zones, c_schedules[i])
           THEN a_trace' = <<>> /\ a_result' = "KeyError"
           ELSE /\ a_trace' = <<Returned(Some(calendar_schedule(c_active_zones, c_schedules[i])))>>
                /\ a_result' = "ok"
        /\ UNCHANGED <<ctrlVars, sensVars, hassVars, sdfVars>>

(***************************************************************************)
(* Zone entities: the platforms create one per key of active_zones when    *)
(* the entry is set up, after the first refresh (switch.py 233, sensor.py  *)
(* 303, binary_sensor.py 74); each keeps its zone key and indexes          *)
(* coordinator.active_zones with it on every read.                         *)
(***************************************************************************)
switch_async_setup_entry ==
    /\ c_zone_entities = NoneV
    /\ c_pc = "idle"
    /\ c_outcome = "ok"
    /\ c_zone_entities' = Some(DOMAIN c_active_zones)
    /\ UNCHANGED <<c_zone_num, c_status, c_metadata, c_battery_level, c_active_zones,
                   c_schedules, c_moistures, c_current_slowdown_factor, c_update_interval,
                   c_pc, c_outcome, c_info_zones, c_info_battery, c_sched_resp, c_now,
                   c_keys_before, c_calls, c_poll_time, c_views>>
    /\ UNCHANGED <<sensVars, hassVars, sdfVars, actVars>>

\* the state of a zone's watering switch is read
ZoneWateringSwitch_is_on(zone_id) ==
    /\ a_pc = "idle"
    /\ c_zone_entities # NoneV
    /\ zone_id \in c_zone_entities[1]
    /\ a_handler' = "ZoneWateringSwitch.is_on"
    /\ a_args' = [zone_id |-> zone_id]
    /\ a_pc' = "idle"
    /\ IF zone_id \in DOMAIN c_active_zones
       THEN a_trace' = <<Returned(is_on(zone_id))>> /\ a_result' = "ok"
       ELSE a_trace' = <<>> /\ a_result' = "KeyError"
    /\ UNCHANGED <<ctrlVars, sensVars, hassVars, sdfVars>>

\* arguments of the action methods
Durations == {15}
Delays == {0, 5}
WateringStartTimes ==
    {NoneV, Some([year |-> 1900, month |-> 1, day |-> 1, hour |-> 14, minute |-> 30, second |-> 20])}
NoWaterDays == {NoneV, Some(5)}


Init == InitController /\ InitSensor /\ InitHass /\ ParkedSdf /\ ParkedAct
Next ==
    \/ \E t \in PollTimes : ControllerPollStart(t)
    \/ ControllerCallRaises
    \/ c_pc = "get_info" /\ \E res \in InfoResponses : GetInfoReturns(res)
    \/ \E m \in PollMoistureLists : GetMoisturesReturns(m)
    \/ c_pc = "get_schedules"
       /\ \E sch \in PollScheduleLists, clock \in PollClocks : GetSchedulesReturns(sch, clock)
Spec == Init /\ [][Next]_vars

\* the zone map across polls: every get-info answer, over polls whose moisture
\* and schedule answers are empty
NextZones ==
    \/ \E t \in PollTimes : ControllerPollStart(t)
    \/ ControllerCallRaises
    \/ c_pc = "get_info" /\ \E res \in InfoResponses : GetInfoReturns(res)
    \/ GetMoisturesReturns(<<>>)
    \/ \E clock \in PollClocks : GetSchedulesReturns(<<>>, clock)
SpecZones == Init /\ [][NextZones]_vars

\* the schedule reconciliation on its own: a coordinator whose poll has loaded
\* its zones and is suspended at get_schedules, over every schedule list
WellFormedZoneLists == {zs \in ZoneLists : \A i \in DOMAIN zs : "enabled" \in DOMAIN zs[i]}
InitReconcile ==
    /\ \E zs \in WellFormedZoneLists :
          /\ c_info_zones = Some(zs)
          /\ c_zone_num = Some(Len(zs))
          /\ c_active_zones = LoadZones(zs, 1, <<>>).active_zones
    /\ c_status = Some("ONLINE")
    /\ c_metadata = Some(Meta(GoodMeta(1)))
    /\ c_battery_level = NoneV
    /\ c_info_battery = NoneV
    /\ c_schedules = <<>>
    /\ c_moistures = <<>>
    /\ c_current_slowdown_factor = 1
    /\ c_update_interval = refresh_interval
    /\ c_pc = "get_schedules"
    /\ c_outcome = "polling"
    /\ c_sched_resp = NoneV
    /\ c_now = NoneV
    /\ c_keys_before = {}
    /\ c_calls = <<RemoteEvent("call", "get_info"), RemoteEvent("return", "get_info"),
                   RemoteEvent("call", "get_moistures"), RemoteEvent("return", "get_moistures"),
                   RemoteEvent("call", "get_schedules")>>
    /\ c_poll_time = Some([hour |-> 12, minute |-> 0, second |-> 0])
    /\ c_views = <<<<>>, c_active_zones, c_active_zones>>
    /\ c_zone_entities = NoneV
    /\ InitSensor /\ InitHass /\ ParkedSdf /\ ParkedAct
NextReconcile ==
    \/ ControllerCallRaises
    \/ c_pc = "get_schedules"
       /\ \E sch \in ScheduleLists, clock \in Clocks : GetSchedulesReturns(sch, clock)
SpecReconcile == InitReconcile /\ [][NextReconcile]_vars

\* action methods called while the coordinator polls: the polls start at noon and
\* are answered with every zone listed and well-formed, a well-formed meta block,
\* and empty moisture and schedule lists
FullZoneLists == {zs \in WellFormedZoneLists : Len(zs) = MaxZone}
ActionInfoResponses ==
    {res \in InfoResponses :
        /\ res.device.zones \in FullZoneLists
        /\ ~MetaRaises(res.meta)
        /\ "battery_level" \in DOMAIN res.device => res.device.battery_level # 0}
ActionPollTimes == {t \in PollTimes : t.hour = 12}
PollSteps ==
    \/ \E t \in ActionPollTimes : ControllerPollStart(t)
    \/ ControllerCallRaises
    \/ c_pc = "get_info" /\ \E res \in ActionInfoResponses : GetInfoReturns(res)
    \/ GetMoisturesReturns(<<>>)
    \/ \E clock \in PollClocks : GetSchedulesReturns(<<>>, clock)
NextActions ==
    \/ PollSteps
    \/ enable
    \/ disable
    \/ \E d \in Durations, w \in Delays, st \in WateringStartTimes : start_watering(d, w, st)
    \/ stop_watering
    \/ \E days \in NoWaterDays : no_water(days)
    \/ \E z \in Zones, d \in Durations, w \in Delays, st \in WateringStartTimes :
          Zone_start_watering(z, d, w, st)
    \/ \E z \in Zones : Zone_stop_watering(z)
    \/ RemoteRaises
    \/ ActionReturns
SpecActions == Init /\ [][NextActions]_vars

\* the watering switches turned on and off while the coordinator polls
NextSwitch ==
    \/ PollSteps
    \/ \E z \in Zones, kw \in SwitchKwargs : ZoneWateringSwitch_async_turn_on(z, kw)
    \/ \E z \in Zones : ZoneWateringSwitch_async_turn_off(z)
    \/ \E kw \in SwitchKwargs : ControllerWateringSwitch_async_turn_on(kw)
    \/ ControllerWateringSwitch_async_turn_off
    \/ RemoteRaises
    \/ SwitchActionReturns
    \/ SleepElapses
    \/ async_request_refresh
SpecSwitch == Init /\ [][NextSwitch]_vars

\* the services called while entries are set up and unloaded
NextServices ==
    \/ \E e \in Entries : async_setup_entry(e)
    \/ \E e \in Entries, ok \in BOOLEAN : async_unload_entry(e, ok)
    \/ \E id \in CallEntryIds, d \in WeatherDates : report_weather(id, d)
    \/ \E id \in CallEntryIds : refresh(id)
    \/ \E id \in CallEntryIds, days \in ServiceDays : nowater(id, days)
    \/ RemoteRaises
    \/ ServiceActionReturns
    \/ async_request_refresh
SpecServices == Init /\ [][NextServices]_vars

\* the calendar read between the steps of polls, never at a time before the
\* last poll's; the schedule answers name only zones that are active when they
\* arrive
NextCalendar ==
    \/ \E t \in ActionPollTimes : ControllerPollStart(t)
    \/ ControllerCallRaises
    \/ c_pc = "get_info" /\ \E res \in ActionInfoResponses : GetInfoReturns(res)
    \/ GetMoisturesReturns(<<>>)
    \/ c_pc = "get_schedules"
       /\ \E sch \in PollScheduleLists, clock \in PollClocks :
             /\ \A i \in DOMAIN sch : sch[i].zone \in DOMAIN c_active_zones
             /\ GetSchedulesReturns(sch, clock)
    \/ \E clock \in Clocks :
          /\ c_now # NoneV => ~StrLess(strftime_gmtime(clock), c_now[1])
          /\ current_calendar_schedule(clock)
SpecCalendar == Init /\ [][NextCalendar]_vars

\* polls answered with every zone listed, enabled or not, a well-formed meta
\* block, and moisture and schedule lists that are not empty; the schedule
\* answers name only zones that are active when they arrive
PollInfoResponses ==
    {res \in InfoResponses :
        /\ res.device.zones \in FullZoneLists
        /\ ~MetaRaises(res.meta)}
NextPolls ==
    \/ \E t \in ActionPollTimes : ControllerPollStart(t)
    \/ ControllerCallRaises
    \/ c_pc = "get_info" /\ \E res \in PollInfoResponses : GetInfoReturns(res)
    \/ \E m \in PollMoistureLists : GetMoisturesReturns(m)
    \/ c_pc = "get_schedules"
       /\ \E sch \in PollScheduleLists, clock \in PollClocks :
             /\ \A i \in DOMAIN sch : sch[i].zone \in DOMAIN c_active_zones
             /\ GetSchedulesReturns(sch, clock)
SpecPolls == Init /\ [][NextPolls]_vars

\* an entry set up after its first refresh has succeeded, then polled again and
\* again while the zone switches are read (a first refresh that fails ends the
\* setup: the coordinator is dropped and a later attempt starts afresh)
NextEntities ==
    \/ (c_outcome = "none" \/ c_zone_entities # NoneV)
       /\ \E t \in ActionPollTimes : ControllerPollStart(t)
    \/ c_zone_entities # NoneV /\ ControllerCallRaises
    \/ c_pc = "get_info" /\ \E res \in PollInfoResponses : GetInfoReturns(res)
    \/ \E m \in PollMoistureLists : GetMoisturesReturns(m)
    \/ c_pc = "get_schedules"
       /\ \E sch \in PollScheduleLists, clock \in PollClocks :
             /\ \A i \in DOMAIN sch : sch[i].zone \in DOMAIN c_active_zones
             /\ GetSchedulesReturns(sch, clock)
    \/ switch_async_setup_entry
    \/ \E z \in Zones : ZoneWateringSwitch_is_on(z)
SpecEntities == Init /\ [][NextEntities]_vars

\* one sensor coordinator, polled again and again
NextSensor ==
    \/ SensorPollStart
    \/ SensorCallRaises
    \/ s_pc = "get_sensor_data" /\ \E res \in SensorResponses : SensorCallReturns(res)
SpecSensor == Init /\ [][NextSensor]_vars

\* the integration's entries being set up and unloaded
NextHass ==
    \/ \E e \in Entries : async_setup_entry(e)
    \/ \E e \in Entries, ok \in BOOLEAN : async_unload_entry(e, ok)
SpecHass == Init /\ [][NextHass]_vars

\* the slowdown table: configured, prepared once, then evaluated
InitSdfHarness == InitController /\ InitSensor /\ InitHass /\ InitSdf /\ ParkedAct
NextSdf ==
    \/ Prepare
    \/ \E t \in TimesOfDay : Evaluate(t)
SpecSdf == InitSdfHarness /\ [][NextSdf]_vars

\* the slowdown table from configuration.yaml to the polls: validated, prepared
\* once, handed to the coordinators, then evaluated at every poll
InitConfigHarness == InitController /\ InitSensor /\ InitHass /\ InitConfig /\ ParkedAct
NextConfig ==
    \/ Validate
    \/ Prepare
    \/ \E t \in TimesOfDay : Evaluate(t)
SpecConfig == InitConfigHarness /\ [][NextConfig]_vars

(***************************************************************************)
(* Properties                                                              *)
(***************************************************************************)
\* the five controller fields a failed get-info is said to leave alone
ctrlInfoFields == <<c_zone_num, c_status, c_metadata, c_battery_level, c_active_zones>>

\* the nine measurement fields of the sensor coordinator
sensMeasFields == <<s_id, s_time, s_local_date, s_local_time, s_moisture,
                    s_sunlight, s_celsius, s_fahrenheit, s_battery_level>>

\* C1: a controller poll that fails at get-info (the call raises, or the meta
\* block or the zone list of the response cannot be parsed) leaves zone_count,
\* status, last_metadata, battery_level and active_zones as they were when the
\* poll started.  Stated for a coordinator to which an earlier poll has given a
\* zone count and metadata, over both steps of the failing poll: its start, and
\* the step in which get-info fails.
C1_FailedInfoKeepsControllerState ==
    [][ (/\ c_zone_num # NoneV
         /\ c_metadata # NoneV
         /\ \/ (c_pc = "idle" /\ c_pc' = "get_info")
            \/ (c_pc = "get_info" /\ c_outcome' = "failed_info"))
        => UNCHANGED ctrlInfoFields ]_vars

\* C2: a sensor poll that fails (the call raises, or the meta block or a field
\* of the first measurement cannot be parsed) leaves last_metadata and the nine
\* measurement fields as they were when the poll started.  Stated for a
\* coordinator to which an earlier poll has given metadata and a measurement,
\* over both steps of the failing poll.
C2_FailedSensorPollKeepsState ==
    [][ (/\ s_metadata # NoneV
         /\ s_id # NoneV
         /\ \/ (s_pc = "idle" /\ s_pc' = "get_sensor_data")
            \/ (s_pc = "get_sensor_data" /\ s_outcome' = "failed"))
        => UNCHANGED <<s_metadata, sensMeasFields>> ]_vars

\* C3: after every successful controller poll the keys of active_zones are
\* exactly the indices of the zones the poll's get-info response lists as
\* enabled.
C3_ActiveZonesAreEnabledZones ==
    c_outcome = "ok" =>
        LET zones == c_info_zones[1]
        IN  DOMAIN c_active_zones =
                {zones[i].ith : i \in {j \in DOMAIN zones : zones[j].enabled}}

\* C3 witness: a successful poll has dropped a zone that was a key when the
\* poll started and that the response lists as disabled, and has kept another.
C3_Witness ==
    /\ c_outcome = "ok"
    /\ \E i \in DOMAIN c_info_zones[1] :
          /\ ~c_info_zones[1][i].enabled
          /\ c_info_zones[1][i].ith \in c_keys_before
          /\ c_info_zones[1][i].ith \notin DOMAIN c_active_zones
    /\ DOMAIN c_active_zones # {}

\* C4: when unloading the platforms fails, async_unload_entry returns False,
\* the entry's coordinator stays in the registry and no service is removed.
C4_FailedUnloadRemovesNothing ==
    [][ \A e \in Entries :
           async_unload_entry(e, FALSE) =>
               /\ h_unload_result' = Some(FALSE)
               /\ e \in h_data'
               /\ h_services' = h_services ]_vars

\* C5: after a reconciliation, past_schedules of every zone holds exactly the
\* schedules of the response whose zone is that zone and whose status is
\* EXECUTED or EXECUTING, each as often as the response holds it, by start
\* time descending.
C5_PastSchedules ==
    c_outcome = "ok" =>
        \A z \in DOMAIN c_active_zones :
            LET past == c_active_zones[z].past_schedules
                resp == c_sched_resp[1]
                Range(list) == {list[i] : i \in DOMAIN list}
                Occurrences(list, r) == Cardinality({i \in DOMAIN list : list[i] = r})
            IN  /\ \A r \in Range(resp) \cup Range(past) :
                      Occurrences(past, r) =
                          IF /\ r.zone = z
                             /\ r.status \in {NETRO_SCHEDULE_EXECUTED, NETRO_SCHEDULE_EXECUTING}
                          THEN Occurrences(resp, r)
                          ELSE 0
                /\ \A i, j \in DOMAIN past :
                      i < j => fromisoformat(past[i].start_time)
                                   >= fromisoformat(past[j].start_time)

\* C5 witness: a zone has two past schedules with different start times, the
\* later one answered after the earlier one.
C5_Witness ==
    /\ c_outcome = "ok"
    /\ \E z \in DOMAIN c_active_zones :
          LET past == c_active_zones[z].past_schedules
              resp == c_sched_resp[1]
          IN  /\ Len(past) = 2
              /\ past[1].start_time # past[2].start_time
              /\ resp[1] = past[2]
              /\ resp[2] = past[1]

\* C6: after a reconciliation, coming_schedules of every zone holds exactly the
\* schedules of the response whose zone is that zone, whose status is VALID and
\* whose start time is strictly after the clock reading of the reconciliation,
\* by start time ascending; a VALID schedule starting at or before that reading
\* is not in it.
C6_ComingSchedules ==
    c_outcome = "ok" =>
        \A z \in DOMAIN c_active_zones :
            LET coming == c_active_zones[z].coming_schedules
                resp   == c_sched_resp[1]
                now    == fromisoformat(c_now[1])
                Range(list) == {list[i] : i \in DOMAIN list}
                Occurrences(list, r) == Cardinality({i \in DOMAIN list : list[i] = r})
            IN  /\ \A r \in Range(resp) \cup Range(coming) :
                      Occurrences(coming, r) =
                          IF /\ r.zone = z
                             /\ r.status = NETRO_SCHEDULE_VALID
                             /\ fromisoformat(r.start_time) > now
                          THEN Occurrences(resp, r)
                          ELSE 0
                /\ \A i, j \in DOMAIN coming :
                      i < j => fromisoformat(coming[i].start_time)
                                   <= fromisoformat(coming[j].start_time)

\* C6 witness: the response holds a VALID schedule of a zone that starts exactly
\* at the clock reading and a VALID one of the same zone that starts after it;
\* only the second is coming.
C6_Witness ==
    /\ c_outcome = "ok"
    /\ \E z \in DOMAIN c_active_zones :
          LET coming == c_active_zones[z].coming_schedules
              resp   == c_sched_resp[1]
          IN  /\ Len(coming) = 1
              /\ \E i \in DOMAIN resp :
                    /\ resp[i].zone = z
                    /\ resp[i].status = NETRO_SCHEDULE_VALID
                    /\ resp[i].start_time = c_now[1]

\* C6 witness for the order: two coming schedules of one zone, answered latest
\* first.
C6_WitnessOrder ==
    /\ c_outcome = "ok"
    /\ \E z \in DOMAIN c_active_zones :
          LET coming == c_active_zones[z].coming_schedules
              resp   == c_sched_resp[1]
          IN  /\ Len(coming) = 2
              /\ coming[1].start_time # coming[2].start_time
              /\ resp[1] = coming[2]

\* C7: a zone's switch reads on exactly when the zone's past_schedules is not
\* empty and its first entry has status EXECUTING.
C7_IsWatering ==
    \A z \in DOMAIN c_active_zones :
        LET past == c_active_zones[z].past_schedules
        IN  is_on(z) <=> (Len(past) > 0 /\ past[1].status = NETRO_SCHEDULE_EXECUTING)

\* C7 witness: after a reconciliation one zone is watering, its running
\* schedule ahead of an older executed one, and another zone has no past
\* schedule and is not watering.
C7_Witness ==
    /\ c_outcome = "ok"
    /\ \E z \in DOMAIN c_active_zones :
          LET past == c_active_zones[z].past_schedules
          IN  /\ Len(past) = 2
              /\ past[2].status = NETRO_SCHEDULE_EXECUTED
              /\ is_on(z)
    /\ \E z \in DOMAIN c_active_zones :
          /\ c_active_zones[z].past_schedules = <<>>
          /\ ~is_on(z)

\* C8: get_slowdown_factor returns the sdf of the lowest-index window w with
\* from(w) <= positive_now <= to(w) or from(w) <= negative_now <= to(w), both
\* bounds inclusive, even when a later window matches too; it returns 1 when the
\* table is None, is empty, or holds no matching window.
C8_FirstMatchWins ==
    f_pc = "evaluated" =>
        LET now      == f_time[1]
            positive == now.hour * SecondsPerHour + now.minute * SecondsPerMinute + now.second
            negative == positive - DayHours * SecondsPerHour
            windows  == IF f_table = NoneV THEN <<>> ELSE f_table[1]
            matching == {i \in DOMAIN windows :
                            \/ windows[i].from <= positive /\ positive <= windows[i].to
                            \/ windows[i].from <= negative /\ negative <= windows[i].to}
        IN  f_factor = Some(IF matching = {} THEN 1
                            ELSE windows[CHOOSE i \in matching :
                                            \A j \in matching : i <= j].sdf)

\* C8 witness: the time of day sits exactly on the upper bound of the first
\* window, a later window with another sdf matches too, and the first one's sdf
\* is returned.
C8_Witness ==
    /\ f_pc = "evaluated"
    /\ f_table # NoneV
    /\ Len(f_table[1]) = 2
    /\ f_time[1].hour * SecondsPerHour + f_time[1].minute * SecondsPerMinute
           + f_time[1].second = f_table[1][1].to
    /\ f_table[1][2].from < f_table[1][1].to
    /\ f_table[1][1].to < f_table[1][2].to
    /\ f_table[1][1].sdf # f_table[1][2].sdf
    /\ f_factor = Some(f_table[1][1].sdf)

\* C8 witness for the default: a table whose windows all miss the time of day
\* yields 1.
C8_WitnessDefault ==
    /\ f_pc = "evaluated"
    /\ f_table # NoneV
    /\ Len(f_table[1]) = 2
    /\ f_factor = Some(1)

\* C9: prepare_slowdown_factors keeps the windows in their order, converts from
\* and to to decimal hours, and lowers from by 24 hours for exactly the windows
\* whose converted from is greater than their converted to; to is the converted
\* to and sdf is the configured sdf in every window.  None stays None.
C9_PreparedWindows ==
    f_pc \in {"prepared", "evaluated"} =>
        IF f_raw = NoneV THEN f_table = NoneV
        ELSE /\ f_table # NoneV
             /\ Len(f_table[1]) = Len(f_raw[1])
             /\ \A i \in DOMAIN f_raw[1] :
                   LET raw_from == hhmm_to_decimal(f_raw[1][i].from)
                       raw_to   == hhmm_to_decimal(f_raw[1][i].to)
                   IN  /\ f_table[1][i].to = raw_to
                       /\ f_table[1][i].sdf = f_raw[1][i].sdf
                       /\ raw_from > raw_to
                             => f_table[1][i].from = raw_from - DayHours * SecondsPerHour
                       /\ raw_from <= raw_to => f_table[1][i].from = raw_from

\* C9 witness: a prepared table whose first window crosses midnight and whose
\* second does not, with different sdf.
C9_Witness ==
    /\ f_pc = "prepared"
    /\ f_table # NoneV
    /\ Len(f_table[1]) = 2
    /\ f_table[1][1].from < 0
    /\ f_table[1][2].from > 0
    /\ f_table[1][2].from < f_table[1][2].to
    /\ f_table[1][1].sdf # f_table[1][2].sdf

\* C10: a sensor poll whose response holds an empty measurement list leaves
\* each of the nine measurement fields as it was before the poll.
C10_EmptyListKeepsMeasurements ==
    [][ (\/ (s_pc = "idle" /\ s_pc' = "get_sensor_data")
         \/ (s_pc = "get_sensor_data" /\ s_resp_len' = Some(0)))
        => UNCHANGED sensMeasFields ]_vars

\* C10 witness: a poll has returned an empty measurement list to a coordinator
\* whose measurement fields an earlier poll had set.
C10_Witness ==
    /\ s_pc = "idle"
    /\ s_outcome = "ok"
    /\ s_resp_len = Some(0)
    /\ s_id # NoneV
    /\ s_moisture # NoneV
    /\ s_local_time # NoneV


\* C11: a step of an action method (enable, disable, start_watering,
\* stop_watering, no_water of the controller, start_watering and stop_watering
\* of a zone), from its call to the return or the failure of its remote call,
\* leaves every poll-result field as it was and does not move the poll: a poll
\* that is idle stays idle, one that is in flight stays where it is suspended.
pollResultFields ==
    <<c_status, c_zone_num, c_metadata, c_battery_level, c_active_zones,
      c_schedules, c_moistures, c_current_slowdown_factor>>
C11_ActionMethodsKeepPollState ==
    [][(a_handler' \in ActionMethods /\ actVars' # actVars)
         => /\ UNCHANGED pollResultFields
            /\ UNCHANGED <<c_pc, c_outcome, c_update_interval>>]_vars
\* an action method has failed and another has succeeded after polls gave the
\* coordinator zones, a status and a battery level
C11_Witness ==
    /\ a_handler \in ActionMethods /\ a_result = "raised"
    /\ c_status # NoneV /\ c_battery_level # NoneV /\ DOMAIN c_active_zones # {}
C11_WitnessDuringPoll ==
    /\ a_handler = "Zone.start_watering" /\ a_result = "ok"
    /\ c_pc = "get_schedules" /\ DOMAIN c_active_zones # {}


\* C15: the water request of start_watering (controller or zone): when a
\* start_time is given the request carries it, formatted, and carries no delay;
\* when no start_time is given the request carries no start_time and carries the
\* delay (a delay of 0, "immediately", may be left out of the request).
C15_StartTimeTakesPrecedenceOverDelay ==
    (a_handler \in {"start_watering", "Zone.start_watering"} /\ a_trace # <<>>)
    => LET payload == a_trace[1].payload
       IN  IF a_args.start_time # NoneV
           THEN /\ "start_time" \in DOMAIN payload
                /\ payload.start_time = strftime_ymd_hm(a_args.start_time[1])
                /\ "delay" \notin DOMAIN payload
           ELSE /\ "start_time" \notin DOMAIN payload
                /\ IF a_args.delay > 0
                   THEN "delay" \in DOMAIN payload /\ payload.delay = a_args.delay
                   ELSE "delay" \notin DOMAIN payload


\* C16: a call of the controller coordinator's no_water sends exactly one remote
\* request, a no-water command keyed by the controller's serial number, whose
\* days are the days given, or 1 when the caller gave none.
C16_NoWaterSendsDays ==
    a_handler = "no_water"
    => /\ Len(a_trace) = 1
       /\ a_trace[1].kind = "remote"
       /\ a_trace[1].api = "no_water"
       /\ DOMAIN a_trace[1].payload = {"key", "days"}
       /\ a_trace[1].payload.key = serial_number
       /\ a_trace[1].payload.days = IF a_args.days = NoneV THEN 1 ELSE a_args.days[1]
\* no_water() without days has returned, and so has no_water(days=5)
C16_Witness == a_handler = "no_water" /\ a_args.days = NoneV /\ a_result = "ok"
C16_WitnessGiven == a_handler = "no_water" /\ a_args.days = Some(5) /\ a_result = "ok"


\* C17: stop_watering called on a zone sends one remote request, and it is the
\* request stop_watering sends when called on the controller: a stop command
\* whose only parameter is the controller's serial number (no zone).
C17_ZoneStopIsControllerStop ==
    a_handler = "Zone.stop_watering"
    => /\ Len(a_trace) = 1
       /\ a_trace[1] = stop_watering_request
       /\ a_trace[1].api = "stop_water"
       /\ DOMAIN a_trace[1].payload = {"key"}
       /\ a_trace[1].payload.key = serial_number
\* stop_watering of zone 2 has returned
C17_Witness == a_handler = "Zone.stop_watering" /\ a_args.ith = 2 /\ a_result = "ok"


\* C12: what a turn_on or turn_off of a zone or controller watering switch has
\* done is always a prefix of: one remote action call (a water request for
\* turn_on, a stop request for turn_off), one wait of delay_before_refresh
\* seconds, one refresh request.  While the action call is outstanding or the
\* wait has not elapsed no refresh has been requested, and a call that has run
\* to its end has done all three, once each.
C12_SwitchActionWaitRefresh ==
    a_handler \in WateringSwitches
    => /\ Len(a_trace) <= 3
       /\ Len(a_trace) >= 1 =>
            /\ a_trace[1].kind = "remote"
            /\ a_trace[1].api =
                 IF a_handler \in {"ZoneWateringSwitch.async_turn_on",
                                   "ControllerWateringSwitch.async_turn_on"}
                 THEN "water" ELSE "stop_water"
       /\ Len(a_trace) >= 2 => a_trace[2] = [kind |-> "sleep", seconds |-> 10]
       /\ Len(a_trace) >= 3 => a_trace[3].kind = "refresh"
       /\ a_pc \in {"remote", "sleep"} => Len(a_trace) = 1
       /\ a_pc = "refresh" => Len(a_trace) = 2
       /\ a_result = "ok" => Len(a_trace) = 3 /\ a_pc = "idle"
\* a zone switch has been turned on with a start time and has run to its end
C12_Witness ==
    /\ a_handler = "ZoneWateringSwitch.async_turn_on"
    /\ "start_time" \in DOMAIN a_args.kwargs
    /\ a_result = "ok" /\ Len(a_trace) = 3
C12_WitnessOff ==
    /\ a_handler = "ControllerWateringSwitch.async_turn_off"
    /\ a_result = "ok" /\ Len(a_trace) = 3


\* C13: a step that unloads a controller entry removes the set_moisture service
\* exactly when no other controller entry is loaded; a step that unloads a
\* sensor entry leaves set_moisture as it was.
C13_SetMoistureFollowsControllers ==
    [][ \A e \in Entries :
           (h_loaded[e] = "loaded" /\ h_loaded'[e] = "not_loaded")
           => IF e \in ControllerEntries
              THEN /\ SERVICE_SET_MOISTURE_NAME \in h_services
                   /\ SERVICE_SET_MOISTURE_NAME \notin h_services'
                        <=> ~ \E c \in ControllerEntries \ {e} : h_loaded[c] = "loaded"
              ELSE SERVICE_SET_MOISTURE_NAME \in h_services'
                        <=> SERVICE_SET_MOISTURE_NAME \in h_services ]_vars
\* the last controller has been unloaded while a sensor stays loaded:
\* set_moisture is gone
C13_Witness ==
    /\ h_unload_result = Some(TRUE)
    /\ \A c \in ControllerEntries : h_loaded[c] = "not_loaded"
    /\ \E x \in SensorEntries : h_loaded[x] = "loaded"
    /\ SERVICE_SET_MOISTURE_NAME \notin h_services
\* one of two controllers has been unloaded: set_moisture is still there
C13_WitnessKept ==
    /\ h_unload_result = Some(TRUE)
    /\ h_loaded["c1"] = "not_loaded" /\ h_loaded["c2"] = "loaded"
    /\ \A x \in SensorEntries : h_loaded[x] = "not_loaded"
    /\ SERVICE_SET_MOISTURE_NAME \in h_services

\* C14: a step that unloads an entry removes report_weather, refresh_data and
\* no_water, all three, when no other entry (controller or sensor) is loaded,
\* and leaves all three registered when another entry is loaded.
C14_EntryServicesFollowEntries ==
    [][ \A e \in Entries :
           (h_loaded[e] = "loaded" /\ h_loaded'[e] = "not_loaded")
           => /\ {SERVICE_REPORT_WEATHER_NAME, SERVICE_REFRESH_NAME, SERVICE_NO_WATER_NAME}
                    \subseteq h_services
              /\ IF \E o \in Entries \ {e} : h_loaded[o] = "loaded"
                 THEN {SERVICE_REPORT_WEATHER_NAME, SERVICE_REFRESH_NAME, SERVICE_NO_WATER_NAME}
                        \subseteq h_services'
                 ELSE {SERVICE_REPORT_WEATHER_NAME, SERVICE_REFRESH_NAME, SERVICE_NO_WATER_NAME}
                        \cap h_services' = {} ]_vars
\* the last controller has been unloaded while a sensor stays loaded: the three
\* services are still there
C14_Witness ==
    /\ h_unload_result = Some(TRUE)
    /\ \A c \in ControllerEntries : h_loaded[c] = "not_loaded"
    /\ h_loaded["s1"] = "loaded"
    /\ {SERVICE_REPORT_WEATHER_NAME, SERVICE_REFRESH_NAME, SERVICE_NO_WATER_NAME} \subseteq h_services
\* the last entry, a sensor, has been unloaded: the three services are gone
C14_WitnessLast ==
    /\ h_unload_result = Some(TRUE)
    /\ \A e \in Entries : h_loaded[e] = "not_loaded"
    /\ h_services = {}


C18_WitnessRefresh ==
    a_handler = "refresh" /\ a_result = "HomeAssistantError" /\ a_args.entry_id = "unknown"
C18_WitnessWeather ==
    a_handler = "report_weather" /\ a_result = "HomeAssistantError"
        /\ a_args.entry_id = "unknown" /\ a_args.date # NoneV


\* C19: a read of current_calendar_event returns absent when no schedule of
\* all_schedules ends later than now, and otherwise returns the event built
\* from a schedule that ends later than now and starts no later than any other
\* schedule that ends later than now.
C19_CurrentEventIsEarliestNotEnded ==
    [][(a_handler' = "current_calendar_schedule" /\ actVars' # actVars)
         => LET now     == a_args'.now
                current == {i \in DOMAIN c_schedules : StrLess(now, c_schedules[i].end_time)}
            IN  /\ a_result' = "ok"
                /\ Len(a_trace') = 1
                /\ a_trace'[1].value = NoneV <=> current = {}
                /\ current # {} =>
                     \E i \in current :
                        /\ \A j \in current :
                              ~StrLess(c_schedules[j].start_time, c_schedules[i].start_time)
                        /\ a_trace'[1].value =
                              Some(calendar_schedule(c_active_zones, c_schedules[i]))]_vars


\* C20: after a successful poll the coordinator has a battery_level exactly
\* when the get-info response of that poll held a battery_level that is not
\* falsy (absent and 0 are falsy).
C20_BatteryLevelFollowsLastResponse ==
    c_outcome = "ok"
    => (c_battery_level # NoneV <=> (c_info_battery # NoneV /\ c_info_battery[1] # 0))

(***************************************************************************)
(* The remote calls of one controller poll                                 *)
(***************************************************************************)
\* the calls a poll has issued so far, in order
IssuedCalls ==
    LET IsCall(e) == e[1] = "call"
        issued    == SelectSeq(c_calls, IsCall)
    IN  [k \in DOMAIN issued |-> issued[k][2]]

\* C22: within one controller poll the remote calls issued are a prefix of
\* get-info, get-moistures, get-schedules, each at most once; a later call is
\* issued only after the one before it has returned without raising; a poll
\* that ends successfully has issued all three, each exactly once.
C22_RemoteCallsInOrder ==
    /\ Len(IssuedCalls) <= Len(PollOrder)
    /\ \A k \in DOMAIN IssuedCalls : IssuedCalls[k] = PollOrder[k]
    /\ \A i \in DOMAIN c_calls :
           c_calls[i][1] = "call" =>
               \A k \in 2..Len(PollOrder) :
                   c_calls[i][2] = PollOrder[k] =>
                       /\ \E j \in 1..(i - 1) :
                              c_calls[j] = RemoteEvent("return", PollOrder[k - 1])
                       /\ \A j \in 1..(i - 1) : c_calls[j][1] # "raise"
    /\ c_outcome = "ok" => IssuedCalls = PollOrder

\* a poll has ended successfully after its three calls
C22_Witness ==
    /\ c_outcome = "ok"
    /\ c_pc = "idle"
    /\ Len(c_calls) = 6

\* a poll has been stopped by its second call raising
C22_WitnessStopped ==
    /\ c_outcome = "failed_moistures"
    /\ c_pc = "idle"
    /\ IssuedCalls = <<"get_info", "get_moistures">>
    /\ c_calls[Len(c_calls)] = RemoteEvent("raise", "get_moistures")

(***************************************************************************)
(* The polling period of the controller coordinator                        *)
(***************************************************************************)
\* C23: a controller poll assigns current_slowdown_factor and update_interval
\* before its first remote call, so during and after any poll, successful or
\* failed, update_interval is refresh_interval times the multiplier of the
\* configured windows at the wall-clock time read when that poll started.
C23_IntervalSetAtPollStart ==
    c_poll_time # NoneV =>
        /\ c_current_slowdown_factor = get_slowdown_factor(slowdown_factors, c_poll_time[1])
        /\ c_update_interval
               = refresh_interval * get_slowdown_factor(slowdown_factors, c_poll_time[1])

\* a poll started inside the slowdown window has failed at its first call,
\* after an earlier poll outside the window had set the factor to 1
C23_Witness ==
    /\ c_outcome = "failed_info"
    /\ c_calls = <<RemoteEvent("call", "get_info"), RemoteEvent("raise", "get_info")>>
    /\ c_info_zones # NoneV
    /\ c_poll_time = Some([hour |-> 23, minute |-> 0, second |-> 0])
    /\ c_update_interval = 2 * refresh_interval

\* a poll started outside the window has succeeded
C23_WitnessOk ==
    /\ c_outcome = "ok"
    /\ c_poll_time = Some([hour |-> 12, minute |-> 0, second |-> 0])
    /\ c_update_interval = refresh_interval

(***************************************************************************)
(* A poll whose last call fails                                            *)
(***************************************************************************)
\* the zones the get-info answer of the current/last poll lists as enabled
EnabledInInfo ==
    {c_info_zones[1][i].ith : i \in {j \in DOMAIN c_info_zones[1] : c_info_zones[1][j].enabled}}

\* C24: when get-schedules fails in a poll whose get-info and get-moistures
\* calls succeeded, the poll ends in failure and active_zones holds exactly
\* the zones enabled in that poll's get-info answer, each with its moistures
\* of that poll's get-moistures answer, in the answer's order, and with empty
\* past_schedules and coming_schedules.
C24_FailedSchedulesLeavesZonesWithoutSchedules ==
    c_outcome = "failed_schedules" =>
        /\ c_pc = "idle"
        /\ DOMAIN c_active_zones = EnabledInInfo
        /\ \A z \in DOMAIN c_active_zones :
               LET Mine(moisture) == moisture.zone = z
               IN  /\ c_active_zones[z].moistures = SelectSeq(c_moistures, Mine)
                   /\ c_active_zones[z].past_schedules = <<>>
                   /\ c_active_zones[z].coming_schedules = <<>>

\* get-schedules has failed in a poll that follows a successful one: a zone
\* the earlier poll had given a past schedule now has moistures only, and two
\* zones were given different moistures
C24_Witness ==
    /\ c_outcome = "failed_schedules"
    /\ c_calls[Len(c_calls)] = RemoteEvent("raise", "get_schedules")
    /\ \E z \in DOMAIN c_active_zones :
          /\ z \in DOMAIN c_views[1]
          /\ c_views[1][z].past_schedules # <<>>
          /\ c_active_zones[z].moistures # <<>>
    /\ \E y, z \in DOMAIN c_active_zones :
          c_active_zones[y].moistures # c_active_zones[z].moistures

(***************************************************************************)
(* What a reader sees while a poll is suspended                            *)
(***************************************************************************)
\* C26: a reader that runs while a controller poll is suspended at a remote
\* call sees, for every zone that existed when the poll started, either the
\* zone as it was before the poll or the zone as it is after the poll; it
\* never sees a zone whose moistures or schedules the poll has emptied, so a
\* zone watering before and after the poll is never read as not watering in
\* between.  Stated at the end of a successful poll, over the views recorded
\* at its awaits.
C26_ReadersSeeWholeViews ==
    (c_pc = "idle" /\ c_outcome = "ok") =>
        \A k \in DOMAIN c_views :
            \A z \in DOMAIN c_views[k] \cap DOMAIN c_views[1] :
                /\ \/ c_views[k][z] = c_views[1][z]
                   \/ z \in DOMAIN c_active_zones /\ c_views[k][z] = c_active_zones[z]
                /\ (/\ z \in DOMAIN c_active_zones
                    /\ watering(c_views[1][z])
                    /\ watering(c_active_zones[z])) => watering(c_views[k][z])

\* C26 as amended: a reader that runs while a controller poll is suspended
\* sees the zones as they were before the poll while the poll waits for
\* get-info; while it waits for get-moistures it sees exactly the zones the
\* get-info answer enables, each with empty moistures and schedule lists;
\* while it waits for get-schedules it sees those zones with this poll's
\* moistures and empty schedule lists.  In the last two cases every zone
\* reads as not watering.
C26_ReadersSeeRebuiltZones ==
    /\ c_pc = "get_info" => c_active_zones = c_views[1]
    /\ c_pc \in {"get_moistures", "get_schedules"} =>
           /\ DOMAIN c_active_zones = EnabledInInfo
           /\ \A z \in DOMAIN c_active_zones :
                  LET Mine(moisture) == moisture.zone = z
                  IN  /\ c_active_zones[z].past_schedules = <<>>
                      /\ c_active_zones[z].coming_schedules = <<>>
                      /\ c_active_zones[z].moistures =
                             IF c_pc = "get_moistures" THEN <<>>
                             ELSE SelectSeq(c_moistures, Mine)
                      /\ ~is_on(z)

\* a poll is suspended at get-schedules; a zone that was watering when the
\* poll started is read as not watering
C26_Witness ==
    /\ c_pc = "get_schedules"
    /\ \E z \in DOMAIN c_active_zones \cap DOMAIN c_views[1] :
          /\ watering(c_views[1][z])
          /\ c_active_zones[z].moistures # <<>>
          /\ ~is_on(z)

(***************************************************************************)
(* The schedules the calendar reads and the zones they name                *)
(***************************************************************************)
\* C27: in every state reached through successful or failed polls, every
\* schedule held in _schedules names a zone that is a key of _active_zones,
\* and no read of the current calendar event fails on the zone's name.
C27_SchedulesBelongToActiveZones ==
    /\ \A i \in DOMAIN c_schedules : c_schedules[i].zone \in DOMAIN c_active_zones
    /\ a_handler = "current_calendar_schedule" => a_result # "KeyError"

(***************************************************************************)
(* Zone entities and the zones of later polls                              *)
(***************************************************************************)
\* C28: every zone key for which a zone entity was created at setup is a key
\* of _active_zones after every later poll, and no read of such an entity's
\* state fails on a missing zone.
C28_ZoneEntitiesKeepTheirZone ==
    /\ (c_zone_entities # NoneV /\ c_pc = "idle") =>
           c_zone_entities[1] \subseteq DOMAIN c_active_zones
    /\ a_handler = "ZoneWateringSwitch.is_on" => a_result # "KeyError"

(***************************************************************************)
(* One slowdown window, from configuration to evaluation                   *)
(***************************************************************************)
\* C29: for a configured window whose "from" F and "to" T differ, preparing
\* the window and evaluating it at a time of day t matches exactly when
\* F <= t <= T if F < T, and exactly when t >= F or t <= T if F > T (the
\* window wraps over midnight); no other time matches.  Checked on tables of
\* one window, whose factor differs from the default 1.
C29_WindowMatchesItsInterval ==
    (f_pc = "evaluated" /\ f_raw # NoneV /\ Len(f_raw[1]) = 1 /\ f_raw[1][1].sdf # 1) =>
        LET F == hhmm_to_decimal(f_raw[1][1].from)
            T == hhmm_to_decimal(f_raw[1][1].to)
            t == f_time[1].hour * SecondsPerHour
                 + f_time[1].minute * SecondsPerMinute + f_time[1].second
            matched == f_factor[1] = f_raw[1][1].sdf
        IN  F # T =>
               (matched <=> IF F < T THEN F <= t /\ t <= T ELSE t >= F \/ t <= T)

\* a window that wraps over midnight has matched a time after its "from"
C29_Witness ==
    /\ f_pc = "evaluated"
    /\ f_raw = Some(<<[from |-> <<22, 30>>, to |-> <<6, 0>>, sdf |-> 3]>>)
    /\ f_time = Some([hour |-> 23, minute |-> 0, second |-> 0])
    /\ f_factor = Some(3)

\* the same window has matched its "to"
C29_WitnessBoundary ==
    /\ f_pc = "evaluated"
    /\ f_raw = Some(<<[from |-> <<22, 30>>, to |-> <<6, 0>>, sdf |-> 3]>>)
    /\ f_time = Some([hour |-> 6, minute |-> 0, second |-> 0])
    /\ f_factor = Some(3)

\* a window that does not wrap has not matched one second after its "to"
C29_WitnessOutside ==
    /\ f_pc = "evaluated"
    /\ f_raw = Some(<<[from |-> <<6, 0>>, to |-> <<12, 0, 0>>, sdf |-> 2]>>)
    /\ f_time = Some([hour |-> 12, minute |-> 0, second |-> 1])
    /\ f_factor = Some(1)

(***************************************************************************)
(* The configured slowdown table and the multiplier                        *)
(***************************************************************************)
\* a configured window whose factor is below 1 or whose two times are the
\* same time of day
BadWindow(slot) ==
    \/ slot.sdf < 1
    \/ hhmm_to_decimal(slot.from) = hhmm_to_decimal(slot.to)

\* C21: a slowdown configuration that holds a window with sdf < 1 or with
\* identical "from" and "to" is rejected when the configuration is validated:
\* it is never prepared, and the table handed to the coordinators never
\* holds a window with a factor below 1 or with equal bounds.
C21_BadWindowsAreRejected ==
    /\ (f_raw # NoneV /\ \E i \in DOMAIN f_raw[1] : BadWindow(f_raw[1][i])) =>
           /\ f_pc \in {"yaml", "rejected"}
           /\ f_table = NoneV
    /\ f_pc \in {"prepared", "evaluated"} =>
           /\ f_table # NoneV
           /\ \A i \in DOMAIN f_table[1] :
                  /\ f_table[1][i].sdf >= 1
                  /\ f_table[1][i].from # f_table[1][i].to

\* a table has been rejected for a window whose two times are the same time
\* written in two ways, its factor being acceptable
C21_Witness ==
    /\ f_pc = "rejected"
    /\ f_raw = Some(<<[from |-> <<6, 0>>, to |-> <<12, 0>>, sdf |-> 2],
                      [from |-> <<12, 0>>, to |-> <<12, 0, 0>>, sdf |-> 2]>>)

\* a table has been rejected for its second window's factor 0
C21_WitnessSdf ==
    /\ f_pc = "rejected"
    /\ f_raw = Some(<<[from |-> <<6, 0>>, to |-> <<12, 0>>, sdf |-> 2],
                      [from |-> <<12, 0>>, to |-> <<6, 0>>, sdf |-> 0]>>)

\* a table of two acceptable windows has been prepared
C21_WitnessAccepted ==
    /\ f_pc = "prepared"
    /\ f_raw = Some(<<[from |-> <<6, 0>>, to |-> <<12, 0>>, sdf |-> 2],
                      [from |-> <<12, 0>>, to |-> <<6, 0>>, sdf |-> 1]>>)

\* C30: for every slowdown configuration that validation accepts, the
\* multiplier is at least 1 from the coordinator's construction onwards and
\* after every evaluation at a poll, so the polling period is never shorter
\* than refresh_interval minutes.
C30_MultiplierAtLeastOne ==
    /\ c_current_slowdown_factor >= 1
    /\ c_update_interval >= refresh_interval
    /\ f_factor # NoneV =>
           /\ f_factor[1] >= 1
           /\ refresh_interval * f_factor[1] >= refresh_interval

\* the second window of an accepted table, whose factor is 1, has decided the
\* multiplier of a poll at 23:00
C30_Witness ==
    /\ f_pc = "evaluated"
    /\ f_raw = Some(<<[from |-> <<6, 0>>, to |-> <<12, 0>>, sdf |-> 2],
                      [from |-> <<12, 0>>, to |-> <<6, 0>>, sdf |-> 1]>>)
    /\ f_time = Some([hour |-> 23, minute |-> 0, second |-> 0])
    /\ f_factor = Some(1)

\* the first window of that table has decided the multiplier of a poll at noon
C30_WitnessSlowed ==
    /\ f_pc = "evaluated"
    /\ f_raw = Some(<<[from |-> <<6, 0>>, to |-> <<12, 0>>, sdf |-> 2],
                      [from |-> <<12, 0>>, to |-> <<6, 0>>, sdf |-> 1]>>)
    /\ f_time = Some([hour |-> 12, minute |-> 0, second |-> 0])
    /\ f_factor = Some(2)

====
